---- MODULE Spec2Model ----
(***************************************************************************)
(* A model of legate/core/runtime.py: the FieldManager with its FieldMatch *)
(* consensus rounds under control replication, the partition cache of      *)
(* _find_or_create_partition, and the launch-space planner                 *)
(* Runtime.compute_parallel_launch_space_by_shape.                         *)
(*                                                                         *)
(* A "proc" <<run, shard>> is one replica of the control program.  The     *)
(* shards of one run form a consensus group; two runs are two independent  *)
(* executions of the same program, kept side by side so that properties    *)
(* relating two executions can be stated.                                  *)
(***************************************************************************)
EXTENDS Integers, Sequences, FiniteSets, TLC

\* ------------------------------------------------------------------ bounds

\* allocate_field calls per shard in the one-run specifications
MaxAllocs == 4
\* allocate_field calls per shard when two runs are kept side by side
MaxAllocsRuns == 2
\* allocate_field calls on a manager that dispatches a round on every call
MaxAllocsDrain == 5
\* slot ids a field space holds before has_space turns false
MaxFields == 2

\* references one attachment is given by attach_array
MaxAttachRefs == 2

\* the planner: dimensions of a shape, its largest extent, the largest
\* num_pieces tried, and calls on one shape
MaxDims == 3
MaxExtent == 3
MaxPieces == 6
MaxPlanCalls == 2
\* the largest num_pieces Runtime.__init__ is given
MaxNumPieces == 14

\* find_or_create calls on the region
MaxPartCalls == 2
\* the largest extent of a derived view, and find_or_create_key_partition
\* calls on it
MaxViewExtent == 2
MaxKeyCalls == 2

\* the program that never ends: views a client holds, rounds kept, regions made
MaxHeld == 2
MaxRounds == 2
MaxLoopRegions == 2

\* FieldManager.__init__: the largest byte size of a class, the largest value
\* of either reuse setting, and the managers made
MaxSize == 12
MaxReuse == 4
MaxManagers == 2

Runs == {"a", "b"}
Shards == {1, 2}
AllProcs == Runs \X Shards

\* The replica of the program that runs without control replication.
RT == <<"a", 1>>

\* Base addresses of the external buffers; each holds one array of the
\* modelled class.
Buffers == {0, 2048, 8192}

\* --------------------------------------------------- the runtime's settings

max_field_reuse_size == 256
max_field_reuse_frequency == 32
default_num_pieces == 4
min_shard_volume == 1

\* The (shape, dtype) class of the modelled FieldManager: 512 elements of 8
\* bytes each.
shape == <<512>>
dtype == [itemsize |-> 8]

\* Python's None, where a value may be absent; a value x that is present is <<x>>.
None == <<>>

Some(x) == <<x>>

VARIABLES
    procs,            \* the replicas that run: a set of <<run, shard>>
    pc,               \* where each replica is inside allocate_field
    match_counter,    \* FieldManager.match_counter
    free_fields,      \* FieldManager.free_fields: the sanitized queue
    freed_fields,     \* FieldManager.freed_fields: the unsanitized list
    matches,          \* FieldManager.matches: outstanding rounds, by number
    rounds,           \* FieldMatch.fields of every round dispatched so far
    field_space,      \* FieldSpace: how many slot ids it holds
    top_regions,      \* FieldManager.top_regions: how many regions
    returned,         \* the pairs allocate_field has returned, in order
    live,             \* indexes into returned of the Fields still held
    freed_at,         \* when two runs are compared, per allocated field: the
                      \* allocate_field calls started when it was released
    pooled,           \* pairs pushed to free_fields when a region was made
    unagreed,         \* pairs released by a view and not yet agreed on
    caller,           \* the buffer attach_array is allocating a field for
    attachments,      \* AttachmentManager._attachments, by base address
    att_views,        \* the RegionFields handed out by attach_array
    deferred,         \* AttachmentManager._deferred_detachments
    pending,          \* AttachmentManager._pending_detachments: the futures
                      \* of dispatched detaches, by array and field
    completed,        \* the pending futures that have become ready
    lost,             \* the futures of dispatched detaches that are not
                      \* ready and that detach_array raised before tracking,
                      \* where they are followed; None where they are not
    garbage,          \* views the client dropped inside a reference cycle,
                      \* which wait for the garbage collector
    destroy_pc,       \* where AttachmentManager.destroy is
    att_call,         \* the last call that finished, of the
                      \* AttachmentManager with what it raised or of
                      \* FieldManager.free_field, where calls are recorded
    num_pieces,       \* Runtime.num_pieces
    piece_factors,    \* Runtime.piece_factors
    launch_spaces,    \* Runtime.launch_spaces: the planner's cache, by shape
    plan_shape,       \* the shape the planner is asked about
    plan_result,      \* what the planner returned last
    plan_calls,       \* calls of the planner so far
    tiles,            \* the last call of compute_tile_shape on plan_shape: the
                      \* launch space passed and the tile shape returned
    children,         \* region.index_space.children, in creation order, each
                      \* with the annotations of its Partition object
    key_partition,    \* RegionField.key_partition of every view
    launch_space,     \* RegionField.launch_space of every view
    part_calls,       \* the find_or_create calls so far, with their results
    derived,          \* a view derived from a root view, with the state of
                      \* both RegionFields; None where no view is derived
    runtime_pc,       \* where Runtime.__init__ is: "new" before the piece
                      \* count is factored, "ready" once the Runtime exists,
                      \* "raised" when the constructor raised ValueError
    reuse,            \* Runtime.max_field_reuse_size and
                      \* Runtime.max_field_reuse_frequency
    managers          \* the FieldManagers made so far: the byte size of the
                      \* class and FieldManager.match_frequency

fmvars == <<procs, pc, match_counter, free_fields, freed_fields, matches,
            rounds, field_space, top_regions, returned, live, freed_at, pooled,
            unagreed>>

tdvars == <<pending, completed, lost, garbage, destroy_pc>>

rtvars == <<caller, attachments, att_views, deferred, tdvars, att_call>>

plvars == <<num_pieces, piece_factors, launch_spaces, plan_shape, plan_result,
            plan_calls, tiles, runtime_pc>>

ptvars == <<children, key_partition, launch_space, part_calls, derived>>

cfvars == <<reuse, managers>>

geovars == <<plvars, ptvars, cfvars>>

vars == <<fmvars, rtvars, geovars>>

\* ---------------------------------------------------------------- helpers

ToSet(s) == {s[i] : i \in 1..Len(s)}

Last(s) == s[Len(s)]

Min(a, b) == IF a < b THEN a ELSE b

RECURSIVE Product(_)
Product(s) == IF s = <<>> THEN 1 ELSE Head(s) * Product(Tail(s))

\* The order of (tree_id, field_id) pairs in a consensus result.
PairLess(a, b) == a[1] < b[1] \/ (a[1] = b[1] /\ a[2] < b[2])

RECURSIVE SortPairs(_)
SortPairs(S) ==
    IF S = {} THEN <<>>
    ELSE LET m == CHOOSE x \in S : \A y \in S : x = y \/ PairLess(x, y)
         IN  <<m>> \o SortPairs(S \ {m})

\* ------------------------------------------------------------ FieldManager

\* The scaled frequency is rounded down.
MatchFrequencyForFloor(size, max_size, max_frequency) ==
    IF size > max_size
    THEN max_frequency \div ((size + max_size - 1) \div max_size)
    ELSE max_frequency

\* FieldManager.__init__: the match frequency of a class of `size` bytes under
\* the runtime's two reuse settings.
MatchFrequencyFor(size, max_size, max_frequency) ==
    IF size > max_size
    THEN LET ratio == (size + max_size - 1) \div max_size
         IN  (max_frequency + ratio - 1) \div ratio
    ELSE max_frequency

\* FieldManager.__init__: the match frequency of a (shape, dtype) class.
MatchFrequencyOf(size) ==
    MatchFrequencyFor(size, max_field_reuse_size, max_field_reuse_frequency)

\* The FieldManager of a class of `size` bytes.
Manager(size) ==
    [size |-> size,
     match_frequency |->
         MatchFrequencyFor(size, reuse.max_field_reuse_size,
                           reuse.max_field_reuse_frequency)]

\* The runtime's reuse settings are drawn from Ms and Fs, and the managers of
\* the classes of one of the size lists in `classes` were made.
ReuseInit(Ms, Fs, classes) ==
    /\ reuse \in [max_field_reuse_size : Ms, max_field_reuse_frequency : Fs]
    /\ managers \in {[i \in 1..Len(c) |-> Manager(c[i])] : c \in classes}

\* Runtime.allocate_field makes the FieldManager of a class of `size` bytes.
NewFieldManager(size) ==
    /\ Len(managers) < MaxManagers
    /\ managers' = Append(managers, Manager(size))
    /\ UNCHANGED <<fmvars, rtvars, plvars, ptvars, reuse>>

\* FieldManager.match_frequency of the manager the model follows, the first
\* one made.
match_frequency == managers[1].match_frequency

\* A free_field that takes every release as unordered.
FreeFieldUnordered(free, freed, pair, ordered) ==
    [free |-> free, freed |-> Append(freed, pair)]

\* FieldManager.free_field: the two lists after the call.
FreeField(free, freed, pair, ordered) ==
    IF ordered
    THEN [free |-> Append(free, pair), freed |-> freed]
    ELSE [free |-> free, freed |-> Append(freed, pair)]

\* A Runtime.free_field that treats a view's release as ordered.
RuntimeFreeFieldOrdered(free, freed, pair) == FreeField(free, freed, pair, TRUE)

\* Runtime.free_field before teardown: the class's manager frees the pair with
\* ordered left at its default.
RuntimeFreeField(free, freed, pair) == FreeField(free, freed, pair, FALSE)

\* The shards that take part in p's consensus rounds.
Group(p) == {q \in procs : q[1] = p[1]}

\* legion_context_consensus_match: round k's future is ready once every shard
\* of the group has dispatched its round k ...
Ready(p, k) == \A q \in Group(p) : Len(rounds[q]) >= k

\* ... and holds the pairs every shard offered, in one order for all shards.
Output(p, k) ==
    SortPairs({x \in ToSet(rounds[p][k]) :
                   \A q \in Group(p) : x \in ToSet(rounds[q][k])})

Agrees(output, x) == \E idx \in 1..Len(output) : output[idx] = x

\* An update_free_fields that keeps the agreed candidates in the order of the
\* local candidate list.
UpdateFreeFieldsLocalOrder(fields, output, free, freed) ==
    LET isfound(x) == Agrees(output, x)
        notfound(x) == ~Agrees(output, x)
    IN  [free  |-> free \o SelectSeq(fields, isfound),
         freed |-> freed \o SelectSeq(fields, notfound)]

\* An update_free_fields that forgets the candidates no shard agreed on.
UpdateFreeFieldsDropUnmatched(fields, output, free, freed) ==
    [free |-> free \o output, freed |-> freed]

\* An update_free_fields that also hands the agreed candidates back to the
\* unsanitized list.
UpdateFreeFieldsKeepAll(fields, output, free, freed) ==
    [free |-> free \o output, freed |-> freed \o fields]

\* An update_free_fields that frees the candidates of a round without any
\* agreed pair as ordered.
UpdateFreeFieldsAllOrdered(fields, output, free, freed) ==
    LET notfound(x) == ~Agrees(output, x)
    IN  IF Len(output) > 0
        THEN [free  |-> free \o output,
              freed |-> freed \o SelectSeq(fields, notfound)]
        ELSE [free |-> free \o fields, freed |-> freed]

\* FieldMatch.update_free_fields: the manager's two lists after the round with
\* candidates `fields` and returned buffer `output` is resolved.
UpdateFreeFields(fields, output, free, freed) ==
    IF Len(fields) = 0 THEN [free |-> free, freed |-> freed]
    ELSE LET num_fields == Len(output)
             ordered_fields ==
                 [idx \in 1..num_fields |->
                     IF \E i \in 1..Len(fields) : fields[i] = output[idx]
                     THEN output[idx] ELSE None]
             isfound(x) == \E idx \in 1..num_fields : output[idx] = x
             notfound(x) == ~isfound(x)
         IN  IF num_fields > 0
             THEN [free  |-> free \o ordered_fields,
                   freed |-> freed \o SelectSeq(fields, notfound)]
             ELSE [free |-> free, freed |-> freed \o fields]

\* Two runs are kept side by side.
TwoRuns == \E p \in procs : p[1] = "b"

\* The allocate_field calls a replica may make.
AllocLimit ==
    IF TwoRuns THEN MaxAllocsRuns
    ELSE IF match_frequency = 1 THEN MaxAllocsDrain
    ELSE MaxAllocs

\* allocate_field calls started on p.
NumCalls(p) == Len(returned[p]) + (IF pc[p] = "idle" THEN 0 ELSE 1)

\* A trigger that skips the round when the shard has nothing to offer.
MatchDueIfAny(counter, local_freed_fields) ==
    counter = match_frequency /\ Len(local_freed_fields) > 0

\* A trigger that fires one call late.
MatchDueLate(counter, local_freed_fields) == counter = match_frequency + 1

\* A round is due when the match counter reaches the frequency, whatever the
\* freed list holds.
MatchDue(counter, local_freed_fields) == counter = match_frequency

\* Attachment.__init__ and Attachment.overlaps, for two buffers of the class.
nbytes == Product(shape) * dtype.itemsize

AttEnd(ptr) == ptr + nbytes - 1

\* No two buffers are taken to overlap.
OverlapsNever(ptr, other) == FALSE

\* Attachment.overlaps, of two buffers of nbytes bytes each.
Overlaps(ptr, other) == ~(AttEnd(ptr) < other \/ AttEnd(other) < ptr)

Registered == DOMAIN attachments

\* The record of an AttachmentManager call that finished; nothing is recorded
\* where att_call is None from the start.
Record(op, array, raised) ==
    IF att_call = None THEN None
    ELSE Some([tick |-> 1 - att_call[1].tick, op |-> op, array |-> Some(array),
               raised |-> raised])

\* The entry is forgotten.
DetachArrayDropped(detachments, array, field) == detachments

\* AttachmentManager.detach_array with defer: the deferred list it leaves.
DetachArrayDeferred(detachments, array, field) ==
    Append(detachments, [array |-> array, field |-> field])

\* AttachmentManager.attach_array for an unseen key, once its field k is
\* allocated: the attachment is registered unless it aliases another one; if
\* it does, the error drops the new view, whose __del__ defers its detach.
AttachField(array, k) ==
    IF \E other \in Registered : Overlaps(other, array)
    THEN /\ deferred' = DetachArrayDeferred(deferred, array, k)
         /\ att_call' = Record("attach_array", array, "aliasing")
         /\ UNCHANGED <<attachments, att_views>>
    ELSE /\ att_call' = Record("attach_array", array, "none")
         /\ attachments' =
                [b \in Registered \cup {array} |->
                    IF b = array THEN [count |-> 1, field |-> k]
                    ELSE attachments[b]]
         /\ att_views' = att_views \cup
                             {[field |-> k, array |-> Some(array), n |-> 1]}
         /\ UNCHANGED deferred

\* Runtime.allocate_field returns a view of a new Field over `pair`, to the
\* client or to attach_array (`who` is the buffer being attached).
Return(p, pair, who) ==
    /\ returned' = [returned EXCEPT ![p] = Append(@, pair)]
    /\ live' = [live EXCEPT ![p] = @ \cup {Len(returned[p]) + 1}]
    /\ pc' = [pc EXCEPT ![p] = "idle"]
    /\ caller' = None
    /\ IF who = None
       THEN UNCHANGED <<attachments, att_views, deferred, att_call>>
       ELSE AttachField(who[1], Len(returned[p]) + 1)
    /\ UNCHANGED tdvars

\* The queue is never taken to hold a pair.
HasFreeFieldNever(free) == FALSE

\* The first look at free_fields in allocate_field.
HasFreeField(free) == Len(free) > 0

\* The last round that was dispatched is taken.
PopRight(ms) == [match |-> Last(ms), rest |-> SubSeq(ms, 1, Len(ms) - 1)]

\* self.matches.popleft(): the round taken and the rounds left.
PopLeft(ms) == [match |-> Head(ms), rest |-> Tail(ms)]

\* A field space that never has room.
HasSpaceNever(n) == FALSE

\* FieldManager.allocate_field up to its first wait: count the call, dispatch
\* a round when one is due, and return the head of free_fields if there is one.
AllocCall(p, who) ==
    /\ pc[p] = "idle"
    /\ Len(returned[p]) < AllocLimit
    /\ LET c   == match_counter[p] + 1
           due == MatchDue(c, freed_fields[p])
       IN  /\ match_counter' = [match_counter EXCEPT ![p] = IF due THEN 0 ELSE c]
           /\ freed_fields' = [freed_fields EXCEPT ![p] = IF due THEN <<>> ELSE @]
           /\ rounds' = [rounds EXCEPT ![p] =
                            IF due THEN Append(@, freed_fields[p]) ELSE @]
           /\ matches' = [matches EXCEPT ![p] =
                            IF due THEN Append(@, Len(rounds[p]) + 1) ELSE @]
    /\ IF HasFreeField(free_fields[p])
       THEN /\ free_fields' = [free_fields EXCEPT ![p] = Tail(@)]
            /\ Return(p, Head(free_fields[p]), who)
       ELSE /\ pc' = [pc EXCEPT ![p] = "drain"]
            /\ caller' = who
            /\ UNCHANGED <<free_fields, returned, live, attachments,
                           att_views, deferred, att_call, tdvars>>
    /\ UNCHANGED <<procs, field_space, top_regions, freed_at, pooled, unagreed>>
    /\ UNCHANGED geovars

\* Runtime.allocate_field called by the client.
AllocBegin(p) == AllocCall(p, None)

\* The drain loop's body up to the re-check: pop the oldest outstanding round
\* and resolve it, waiting for its future unless it has no candidates.
Resolve(p) ==
    /\ pc[p] = "drain"
    /\ Len(matches[p]) > 0
    /\ LET k      == PopLeft(matches[p]).match
           fields == rounds[p][k]
       IN  /\ Len(fields) > 0 => Ready(p, k)
           /\ LET output == IF Len(fields) > 0 THEN Output(p, k) ELSE <<>>
                  upd == UpdateFreeFields(fields, output,
                                          free_fields[p], freed_fields[p])
              IN  /\ free_fields' = [free_fields EXCEPT ![p] = upd.free]
                  /\ freed_fields' = [freed_fields EXCEPT ![p] = upd.freed]
                  /\ unagreed' = [unagreed EXCEPT ![p] =
                                     @ \ (ToSet(fields) \cap ToSet(output))]
    /\ matches' = [matches EXCEPT ![p] = PopLeft(@).rest]
    /\ pc' = [pc EXCEPT ![p] = "check"]
    /\ UNCHANGED <<procs, match_counter, rounds, field_space, top_regions,
                   returned, live, freed_at, pooled>>
    /\ UNCHANGED <<rtvars, geovars>>

\* The drain loop's re-check of free_fields after a round was resolved.
Recheck(p) ==
    /\ pc[p] = "check"
    /\ IF Len(free_fields[p]) > 0
       THEN /\ free_fields' = [free_fields EXCEPT ![p] = Tail(@)]
            /\ Return(p, Head(free_fields[p]), caller)
       ELSE /\ pc' = [pc EXCEPT ![p] = "drain"]
            /\ UNCHANGED <<free_fields, returned, live>>
            /\ UNCHANGED rtvars
    /\ UNCHANGED <<procs, match_counter, freed_fields, matches, rounds,
                   field_space, top_regions, freed_at, pooled, unagreed>>
    /\ UNCHANGED geovars

\* FieldSpace.has_space
HasSpace(n) == n < MaxFields

\* allocate_field with nothing to reuse: a new slot id in the first region
\* whose field space has room, else a new region.
Fresh(p) ==
    /\ pc[p] = "drain"
    /\ Len(matches[p]) = 0
    /\ IF top_regions[p] > 0 /\ HasSpace(field_space[p])
       THEN /\ field_space' = [field_space EXCEPT ![p] = @ + 1]
            /\ Return(p, <<1, field_space[p] + 1>>, caller)
            /\ UNCHANGED <<top_regions, free_fields, pooled>>
       ELSE LET region == top_regions[p] + 1
                others == [i \in 1..(field_space[p] - 1) |-> <<region, i + 1>>]
            IN  /\ top_regions' = [top_regions EXCEPT ![p] = region]
                /\ IF field_space[p] > 0
                   THEN /\ free_fields' = [free_fields EXCEPT ![p] = @ \o others]
                        /\ pooled' = [pooled EXCEPT ![p] = @ \cup ToSet(others)]
                        /\ Return(p, <<region, 1>>, caller)
                        /\ UNCHANGED field_space
                   ELSE /\ field_space' = [field_space EXCEPT ![p] = @ + 1]
                        /\ Return(p, <<region, field_space[p] + 1>>, caller)
                        /\ UNCHANGED <<free_fields, pooled>>
    /\ UNCHANGED <<procs, match_counter, freed_fields, matches, rounds, freed_at,
                   unagreed>>
    /\ UNCHANGED geovars

\* The attachment fields are held by the views alone.
AttFieldsOfViews == {v.field : v \in att_views \cup garbage}

\* The Fields that an attachment, a view handed out by attach_array or a
\* deferred detachment refers to.
AttFields ==
    {attachments[b].field : b \in Registered}
    \cup {v.field : v \in att_views \cup garbage}
    \cup {deferred[i].field : i \in 1..Len(deferred)}
    \cup {f.field : f \in pending}

\* The field_managers table is never taken to be None.
FieldManagersDroppedNever == FALSE

\* Runtime.field_managers is None: Runtime.destroy has passed line 1207.
FieldManagersDropped == destroy_pc \in {"dropped", "destroyed"}

\* Runtime.destroyed
Destroyed == destroy_pc = "destroyed"

\* The last holder of the k-th allocated field lets go of it: Field.__del__
\* calls Runtime.free_field, which does nothing once the runtime is destroyed
\* or its field_managers table is None.
Free(p, k) ==
    /\ k \in live[p]
    /\ p = RT => k \notin AttFields
    /\ IF Destroyed \/ FieldManagersDropped
       THEN UNCHANGED <<free_fields, freed_fields, unagreed>>
       ELSE LET pair == returned[p][k]
                upd  == RuntimeFreeField(free_fields[p], freed_fields[p], pair)
            IN  /\ free_fields' = [free_fields EXCEPT ![p] = upd.free]
                /\ freed_fields' = [freed_fields EXCEPT ![p] = upd.freed]
                /\ unagreed' = [unagreed EXCEPT ![p] = @ \cup {pair}]
    /\ live' = [live EXCEPT ![p] = @ \ {k}]
    /\ freed_at' = IF TwoRuns THEN [freed_at EXCEPT ![p][k] = NumCalls(p)]
                   ELSE freed_at
    /\ UNCHANGED <<procs, pc, match_counter, matches, rounds, field_space,
                   top_regions, returned, pooled>>
    /\ UNCHANGED <<rtvars, geovars>>

\* FieldManager.free_field called on p's manager with the pair of the k-th
\* allocated field, which nothing holds any longer, and with `ordered` as
\* passed.
ManagerFree(p, k, ordered) ==
    /\ k \in live[p]
    /\ p = RT => k \notin AttFields
    /\ LET pair == returned[p][k]
           upd  == FreeField(free_fields[p], freed_fields[p], pair, ordered)
       IN  /\ free_fields' = [free_fields EXCEPT ![p] = upd.free]
           /\ freed_fields' = [freed_fields EXCEPT ![p] = upd.freed]
           /\ unagreed' = [unagreed EXCEPT ![p] =
                              IF ordered THEN @ ELSE @ \cup {pair}]
           /\ att_call' = IF att_call = None THEN None
                          ELSE Some([tick |-> 1 - att_call[1].tick,
                                     op |-> "free_field", pair |-> pair,
                                     ordered |-> ordered])
    /\ live' = [live EXCEPT ![p] = @ \ {k}]
    /\ UNCHANGED <<procs, pc, match_counter, matches, rounds, field_space,
                   top_regions, returned, freed_at, pooled>>
    /\ UNCHANGED <<caller, attachments, att_views, deferred, tdvars, geovars>>

\* FieldManager.__init__ and AttachmentManager.__init__ on the replicas P.
PoolInit(P) ==
    /\ procs = P
    /\ pc = [p \in AllProcs |-> "idle"]
    /\ match_counter = [p \in AllProcs |-> 0]
    /\ free_fields = [p \in AllProcs |-> <<>>]
    /\ freed_fields = [p \in AllProcs |-> <<>>]
    /\ matches = [p \in AllProcs |-> <<>>]
    /\ rounds = [p \in AllProcs |-> <<>>]
    /\ field_space = [p \in AllProcs |-> 0]
    /\ top_regions = [p \in AllProcs |-> 0]
    /\ returned = [p \in AllProcs |-> <<>>]
    /\ live = [p \in AllProcs |-> {}]
    /\ freed_at = [p \in AllProcs |-> [k \in 1..MaxAllocs |-> 0]]
    /\ pooled = [p \in AllProcs |-> {}]
    /\ unagreed = [p \in AllProcs |-> {}]
    /\ caller = None
    /\ attachments = [b \in {} |-> None]
    /\ att_views = {}
    /\ deferred = <<>>
    /\ pending = {}
    /\ completed = {}
    /\ garbage = {}
    /\ destroy_pc = "run"

\* The same, with no future followed that nothing keeps.
FMInit(P) ==
    /\ PoolInit(P)
    /\ lost = None

FMNext ==
    \/ \E p \in procs : AllocBegin(p)
    \/ \E p \in procs : Resolve(p)
    \/ \E p \in procs : Recheck(p)
    \/ \E p \in procs : Fresh(p)
    \/ \E p \in procs : \E k \in 1..MaxAllocs : Free(p, k)

\* AttachmentManager.attach_array with a buffer whose key is not registered:
\* a field is allocated for it.
AttachNew(array) ==
    /\ destroy_pc = "run"
    /\ array \notin Registered
    /\ AllocCall(RT, Some(array))

\* The count goes up by two.
AddReferenceTwice(count) == count + 2

\* Attachment.add_reference: the count it leaves.
AddReference(count) == count + 1

\* AttachmentManager.attach_array with a registered key: one more reference
\* and a new view of the attachment's field.
AttachAgain(array) ==
    /\ destroy_pc = "run"
    /\ pc[RT] = "idle"
    /\ array \in Registered
    /\ attachments[array].count < MaxAttachRefs
    /\ attachments' = [attachments EXCEPT ![array].count = AddReference(@)]
    /\ att_views' = att_views \cup
                        {[field |-> attachments[array].field, array |-> None,
                          n |-> attachments[array].count + 1]}
    /\ att_call' = Record("attach_array", array, "none")
    /\ UNCHANGED <<fmvars, caller, deferred, tdvars, geovars>>

\* The client drops a view handed out by attach_array; RegionField.__del__
\* defers the detach of the view that attached the buffer.
DropView(v) ==
    /\ destroy_pc = "run"
    /\ pc[RT] = "idle"
    /\ att_views' = att_views \ {v}
    /\ deferred' = IF v.array # None
                   THEN DetachArrayDeferred(deferred, v.array[1], v.field)
                   ELSE deferred
    /\ UNCHANGED <<fmvars, caller, attachments, tdvars, att_call, geovars>>

\* The sequences that hold every element of S once.
Orders(S) == {s \in [1..Cardinality(S) -> S] : ToSet(s) = S}

\* The detachments that the __del__ of the views in S defers: one for each
\* view that attached its buffer.
Detachments(S) ==
    {[array |-> v.array[1], field |-> v.field] : v \in {w \in S : w.array # None}}

\* AttachmentManager._registered_detachments: one Detach operation for each
\* view that attached a buffer and was not finalized.
RegisteredDetachments == Detachments(att_views \cup garbage)

\* The client drops a view handed out by attach_array that is part of a
\* reference cycle: its __del__ waits for the garbage collector.
LoseView(v) ==
    /\ destroy_pc = "run"
    /\ pc[RT] = "idle"
    /\ att_views' = att_views \ {v}
    /\ garbage' = garbage \cup {v}
    /\ UNCHANGED <<fmvars, caller, attachments, deferred, pending, completed, lost,
                   destroy_pc, att_call, geovars>>

\* The garbage collector runs: every view in garbage is finalized, in some
\* order, and the detach of each one that attached a buffer is deferred.
Collect ==
    /\ destroy_pc = "run"
    /\ pc[RT] = "idle"
    /\ garbage # {}
    /\ \E order \in Orders(Detachments(garbage)) : deferred' = deferred \o order
    /\ garbage' = {}
    /\ UNCHANGED <<fmvars, caller, attachments, att_views, pending, completed, lost,
                   destroy_pc, att_call, geovars>>

\* Attachment.remove_reference: the count it leaves.
RemoveReference(count) == count + 1

\* An unknown buffer is passed over in silence.
RemoveAttachmentOfQuiet(atts, array) ==
    IF array \notin DOMAIN atts
    THEN [raised |-> FALSE, attachments |-> atts]
    ELSE [raised |-> FALSE,
          attachments |-> [atts EXCEPT ![array].count = RemoveReference(@)]]

\* AttachmentManager.remove_attachment: whether it raises, and the table it
\* leaves.
RemoveAttachmentOf(atts, array) ==
    IF array \notin DOMAIN atts
    THEN [raised |-> TRUE, attachments |-> atts]
    ELSE LET count == RemoveReference(atts[array].count)
         IN  [raised |-> FALSE,
              attachments |->
                  IF count = 0
                  THEN [b \in DOMAIN atts \ {array} |-> atts[b]]
                  ELSE [atts EXCEPT ![array].count = count]]

\* A client calls remove_attachment with a buffer.
RemoveAttachment(array) ==
    /\ destroy_pc = "run"
    /\ pc[RT] = "idle"
    /\ array \in Registered => attachments[array].count < MaxAttachRefs
    /\ LET r == RemoveAttachmentOf(attachments, array)
       IN  /\ attachments' = r.attachments
           /\ att_call' = Record("remove_attachment", array,
                                 IF r.raised THEN "not found" ELSE "none")
    /\ UNCHANGED <<fmvars, caller, att_views, deferred, tdvars, geovars>>

\* The futures that nothing keeps and that are not ready.
Lost == IF lost = None THEN {} ELSE lost[1]

\* The loop of perform_detachments over the deferred detachments: each is
\* dispatched and its buffer removed from the table; the future of one in
\* not_ready is kept as pending. The error of remove_attachment ends the loop
\* after the dispatch of its entry, whose future nothing keeps.
RECURSIVE DetachAll(_, _, _)
DetachAll(detachments, atts, not_ready) ==
    IF detachments = <<>>
    THEN [raised |-> FALSE, attachments |-> atts, pending |-> {}, lost |-> {}]
    ELSE LET e == Head(detachments)
             r == RemoveAttachmentOf(atts, e.array)
         IN  IF r.raised
             THEN [raised |-> TRUE, attachments |-> atts, pending |-> {},
                   lost |-> IF e \in not_ready THEN {e} ELSE {}]
             ELSE LET rest == DetachAll(Tail(detachments), r.attachments,
                                        not_ready)
                  IN  [rest EXCEPT !.pending =
                                       @ \cup (IF e \in not_ready THEN {e} ELSE {})]

\* AttachmentManager.destroy begins: the first gc.collect() finalizes every
\* view in garbage.
DestroyBegin ==
    /\ destroy_pc = "run"
    /\ pc[RT] = "idle"
    /\ \E order \in Orders(Detachments(garbage)) : deferred' = deferred \o order
    /\ garbage' = {}
    /\ destroy_pc' = "deferred"
    /\ UNCHANGED <<fmvars, caller, attachments, att_views, pending, completed, lost,
                   att_call, geovars>>

\* One round of the first loop of destroy: perform_detachments, progress, and
\* a gc.collect() that finds nothing, no view having been dropped since the
\* last one.
DestroyPerform ==
    /\ destroy_pc = "deferred"
    /\ deferred # <<>>
    /\ \E not_ready \in SUBSET ToSet(deferred) :
          LET r == DetachAll(deferred, attachments, not_ready)
          IN  /\ deferred' = <<>>
              /\ attachments' = r.attachments
              /\ pending' = pending \cup r.pending
              /\ lost' = IF lost = None THEN None ELSE Some(Lost \cup r.lost)
              /\ destroy_pc' = IF r.raised THEN "raised" ELSE "deferred"
    /\ UNCHANGED <<fmvars, caller, att_views, completed, garbage, att_call,
                   geovars>>

\* The first loop of destroy ends with nothing deferred.
DestroyDrained ==
    /\ destroy_pc = "deferred"
    /\ deferred = <<>>
    /\ destroy_pc' = "pending"
    /\ UNCHANGED <<fmvars, caller, attachments, att_views, deferred, pending,
                   completed, lost, garbage, att_call, geovars>>

\* Every future is forgotten.
PruneDetachmentsAll(futures, ready) == {}

\* AttachmentManager.prune_detachments: the pending futures it leaves.
PruneDetachments(futures, ready) == futures \ ready

\* One round of the second loop of destroy: prune_detachments forgets the
\* futures that are ready.
DestroyPrune ==
    /\ destroy_pc = "pending"
    /\ pending # {}
    /\ pending' = PruneDetachments(pending, completed)
    /\ completed' = {}
    /\ lost' = lost
    /\ att_call' = IF att_call = None THEN None
                   ELSE Some([tick |-> 1 - att_call[1].tick,
                              op |-> "prune_detachments", array |-> None,
                              raised |-> "none"])
    /\ UNCHANGED <<fmvars, caller, attachments, att_views, deferred, garbage,
                   destroy_pc, geovars>>

\* destroy finishes: nothing is pending, and the manager lets go of its tables.
DestroyEnd ==
    /\ destroy_pc = "pending"
    /\ pending = {}
    /\ destroy_pc' = "done"
    /\ attachments' = None
    /\ deferred' = None
    /\ UNCHANGED <<fmvars, caller, att_views, pending, completed, lost, garbage,
                   att_call, geovars>>

\* Runtime.destroy after AttachmentManager.destroy returned: the references to
\* the field managers, field spaces and index spaces are dropped. No
\* FieldManager.destroy is called.
RuntimeDrop ==
    /\ destroy_pc = "done"
    /\ destroy_pc' = "dropped"
    /\ UNCHANGED <<fmvars, caller, attachments, att_views, deferred, pending,
                   completed, lost, garbage, att_call, geovars>>

\* Runtime.destroy ends: gc.collect(), the task postamble, destroyed = True.
RuntimeDestroyed ==
    /\ destroy_pc = "dropped"
    /\ destroy_pc' = "destroyed"
    /\ UNCHANGED <<fmvars, caller, attachments, att_views, deferred, pending,
                   completed, lost, garbage, att_call, geovars>>

\* The client calls Runtime.allocate_field, which it does before teardown.
ClientAlloc ==
    /\ destroy_pc = "run"
    /\ AllocBegin(RT)

\* The detach behind a pending future completes.
Complete(f) ==
    /\ f \in (pending \ completed) \cup Lost
    /\ completed' = IF f \in pending THEN completed \cup {f} ELSE completed
    /\ lost' = IF lost = None THEN None ELSE Some(Lost \ {f})
    /\ UNCHANGED <<fmvars, caller, attachments, att_views, deferred, pending,
                   garbage, destroy_pc, att_call, geovars>>

\* ------------------------------------------------- the launch-space planner

Max(a, b) == IF a > b THEN a ELSE b

\* The tuples with n entries from S.
Tuples(n, S) == [1..n -> S]

\* The first index of s that holds v (tuple.index).
IndexOf(s, v) == CHOOSE i \in 1..Len(s) : s[i] = v /\ \A j \in 1..(i - 1) : s[j] # v

RECURSIVE MaxOf(_)
MaxOf(s) == IF Len(s) = 1 THEN s[1] ELSE Max(Head(s), MaxOf(Tail(s)))

RECURSIVE Repeat(_, _)
Repeat(x, n) == IF n = 0 THEN <<>> ELSE <<x>> \o Repeat(x, n - 1)

RECURSIVE Reverse(_)
Reverse(s) == IF s = <<>> THEN <<>> ELSE Reverse(Tail(s)) \o <<Head(s)>>

\* Runtime.__init__: one `while pieces % f == 0` loop; the factors taken out
\* and what is left of pieces.
RECURSIVE TakeOut(_, _)
TakeOut(pieces, f) ==
    IF pieces % f = 0
    THEN LET rest == TakeOut(pieces \div f, f)
         IN  [factors |-> <<f>> \o rest.factors, pieces |-> rest.pieces]
    ELSE [factors |-> <<>>, pieces |-> pieces]

\* Every piece count is taken, whatever is left of it after factoring.
PieceFactorsAny(pieces) ==
    LET t2  == TakeOut(pieces, 2)
        t3  == TakeOut(t2.pieces, 3)
        t5  == TakeOut(t3.pieces, 5)
        t7  == TakeOut(t5.pieces, 7)
        t11 == TakeOut(t7.pieces, 11)
        factors == t2.factors \o t3.factors \o t5.factors \o t7.factors
                   \o t11.factors
    IN  [ok |-> TRUE, factors |-> Reverse(factors)]

\* Runtime.__init__: the prime factors of num_pieces over 2, 3, 5, 7, 11,
\* largest first; ok is false where the constructor raises ValueError.
PieceFactors(pieces) ==
    LET t2  == TakeOut(pieces, 2)
        t3  == TakeOut(t2.pieces, 3)
        t5  == TakeOut(t3.pieces, 5)
        t7  == TakeOut(t5.pieces, 7)
        t11 == TakeOut(t7.pieces, 11)
        factors == t2.factors \o t3.factors \o t5.factors \o t7.factors
                   \o t11.factors
    IN  [ok |-> ~(t11.pieces > 1), factors |-> Reverse(factors)]

\* What the planner returns: no launch space (Python's None), a launch space,
\* or a failed assertion.
NoSpace == [status |-> "none", space |-> <<>>]

Space(s) == [status |-> "space", space |-> s]

Failed == [status |-> "assert", space |-> <<>>]

\* int(math.floor(math.sqrt(float(a) / float(b)) + 1e-12)) for the small
\* integers of the model: the largest k with k*k*b <= a.
FloorSqrt(a, b) == CHOOSE k \in 0..a : k * k * b <= a /\ (k + 1) * (k + 1) * b > a

\* int(math.ceil(math.sqrt(float(a) / float(b)) - 1e-12)): the smallest k with
\* k*k*b >= a.
CeilSqrt(a, b) == CHOOSE k \in 0..a : k * k * b >= a /\ \A j \in 0..(k - 1) : j * j * b < a

\* n1 is kept as the square root gave it.
DivisorDownKeep(max_pieces, n) == n

\* while max_pieces % n1 != 0: n1 -= 1
RECURSIVE DivisorDown(_, _)
DivisorDown(max_pieces, n) ==
    IF max_pieces % n # 0 THEN DivisorDown(max_pieces, n - 1) ELSE n

\* while max_pieces % n2 != 0: n2 += 1
RECURSIVE DivisorUp(_, _)
DivisorUp(max_pieces, n) ==
    IF max_pieces % n # 0 THEN DivisorUp(max_pieces, n + 1) ELSE n

\* All pieces go to the second dimension.
Plan2DRows(temp_shape, volume, max_pieces) ==
    <<1, Min(max_pieces, temp_shape[2])>>

\* The two-dimensional case: the factor pair of max_pieces nearest to square
\* tiles, trimmed to the shape.
Plan2D(temp_shape, volume, max_pieces) ==
    IF volume < max_pieces THEN temp_shape
    ELSE LET swap == temp_shape[1] > temp_shape[2]
             nx == IF swap THEN temp_shape[2] ELSE temp_shape[1]
             ny == IF swap THEN temp_shape[1] ELSE temp_shape[2]
             n1 == DivisorDown(max_pieces, Max(FloorSqrt(max_pieces * nx, ny), 1))
             n2 == DivisorUp(max_pieces, CeilSqrt(max_pieces * nx, ny))
             side1 == Max(nx \div n1, ny \div (max_pieces \div n1))
             side2 == Max(nx \div n2, ny \div (max_pieces \div n2))
             px == IF side1 <= side2 THEN n1 ELSE n2
             py == max_pieces \div px
         IN  IF swap
             THEN <<Min(py, temp_shape[1]), Min(px, temp_shape[2])>>
             ELSE <<Min(px, temp_shape[1]), Min(py, temp_shape[2])>>

\* The factor always goes to the dimension with the most left.
FactorDimLargest(temp_shape, temp_result, factor) ==
    LET remaining == [d \in 1..Len(temp_shape) |->
                         (temp_shape[d] + temp_result[d] - 1) \div temp_result[d]]
    IN  IndexOf(remaining, MaxOf(remaining))

\* One round of the loop over piece_factors for three or more dimensions: the
\* dimension the factor goes to.
FactorDim(temp_shape, temp_result, factor) ==
    LET dims == Len(temp_shape)
        remaining == [d \in 1..dims |->
                         (temp_shape[d] + temp_result[d] - 1) \div temp_result[d]]
        big_dim == IndexOf(remaining, MaxOf(remaining))
        other == IndexOf(remaining, MaxOf(SubSeq(remaining, 1, dims - 1)))
    IN  IF big_dim < dims THEN big_dim
        ELSE IF Len(remaining) = 1 \/ remaining[big_dim] \div factor >= 32
             THEN big_dim
             ELSE IF remaining[other] \div factor > 0 THEN other ELSE dims

\* Every dimension is cut into single elements.
PlanNDElements(temp_shape, temp_result, factors, factor_prod, max_pieces) ==
    temp_shape

\* The loop over piece_factors.
RECURSIVE PlanND(_, _, _, _, _)
PlanND(temp_shape, temp_result, factors, factor_prod, max_pieces) ==
    IF factors = <<>> \/ Head(factors) * factor_prod > max_pieces
    THEN temp_result
    ELSE LET factor == Head(factors)
             d == FactorDim(temp_shape, temp_result, factor)
         IN  PlanND(temp_shape, [temp_result EXCEPT ![d] = @ * factor],
                    Tail(factors), factor_prod * factor, max_pieces)

\* The one dimension is cut into single elements.
PlanPrunedElements(temp_shape, volume, pieces, factors) == temp_shape

\* The launch space of the shape without its dimensions of extent 1.
PlanPruned(temp_shape, volume, pieces, factors) ==
    IF Len(temp_shape) = 1 THEN <<Min(temp_shape[1], pieces)>>
    ELSE IF Len(temp_shape) = 2 THEN Plan2D(temp_shape, volume, pieces)
    ELSE PlanND(temp_shape, Repeat(1, Len(temp_shape)), factors, 1, pieces)

\* Runtime.compute_parallel_launch_space_by_shape on a shape that is not in
\* the cache, past the checks for one piece and for a single point: what it
\* returns, and whether it saves that in the cache.
ComputeLaunchSpace(sh, pieces, factors) ==
    IF \E d \in 1..Len(sh) : ~(sh[d] > 0)
    THEN [result |-> Failed, save |-> FALSE]
    ELSE LET temp_dims == SelectSeq([d \in 1..Len(sh) |-> d],
                                    LAMBDA d : sh[d] # 1)
             temp_shape == [i \in 1..Len(temp_dims) |-> sh[temp_dims[i]]]
             volume == Product(temp_shape)
             max_pieces == (volume + min_shard_volume - 1) \div min_shard_volume
         IN  IF max_pieces = 1 THEN [result |-> NoSpace, save |-> TRUE]
             ELSE IF Len(temp_shape) = 0
             THEN [result |-> Space(Repeat(1, Len(sh))), save |-> FALSE]
             ELSE LET temp_result ==
                          PlanPruned(temp_shape, volume, pieces, factors)
                  IN  [result |->
                          Space([d \in 1..Len(sh) |->
                                    IF \E i \in 1..Len(temp_dims) : temp_dims[i] = d
                                    THEN temp_result[IndexOf(temp_dims, d)]
                                    ELSE 1]),
                       save |-> TRUE]

\* The loop finds an extent above 1 in every shape.
AllOnesOrZerosNever(sh) == FALSE

\* The loop that looks for an extent above 1: true when there is none.
AllOnesOrZeros(sh) == \A d \in 1..Len(sh) : ~(sh[d] > 1)

\* Runtime.compute_parallel_launch_space_by_shape: what it returns and the
\* cache it leaves.
LaunchSpaceByShape(sh, pieces, factors, cache) ==
    IF pieces = 1 THEN [result |-> NoSpace, cache |-> cache]
    ELSE IF AllOnesOrZeros(sh) THEN [result |-> NoSpace, cache |-> cache]
    ELSE IF sh \in DOMAIN cache THEN [result |-> cache[sh], cache |-> cache]
    ELSE LET r == ComputeLaunchSpace(sh, pieces, factors)
         IN  [result |-> r.result,
              cache |-> IF r.save
                        THEN [s \in DOMAIN cache \cup {sh} |->
                                 IF s = sh THEN r.result ELSE cache[s]]
                        ELSE cache]

\* The tiles are rounded down.
ComputeTileShapeFloor(sh, space) ==
    [d \in 1..Len(sh) |-> sh[d] \div space[d]]

\* Runtime.compute_tile_shape
ComputeTileShape(sh, space) ==
    [d \in 1..Len(sh) |-> (sh[d] + space[d] - 1) \div space[d]]

\* The shapes the planner is asked about.
Shapes == UNION {Tuples(n, 0..MaxExtent) : n \in 1..MaxDims}

\* The values of num_pieces that Runtime.__init__ accepts.
SupportedPieces == {n \in 1..MaxPieces : PieceFactors(n).ok}

\* The shapes and piece counts of the planner's worked examples: 100
\* elements in 4 pieces, 10 by 20 in 8, 5 by 8 in 12, and three-dimensional
\* shapes whose last extent is large enough for the rule of 32.
ScenarioShapes == {<<100>>, <<10, 20>>, <<5, 8>>, <<2, 2, 100>>, <<2, 2, 40>>,
                   <<3, 2, 200>>}

ScenarioPieces == {8, 12}

\* A launch space that was not asked for yet.
Unset == [status |-> "unset", space |-> <<>>]

\* Runtime.__init__ up to the assignment of piece_factors: the factors are
\* taken out of num_pieces, and what is left above 1 raises ValueError, so
\* that no Runtime object comes to exist.
RuntimeInit ==
    /\ runtime_pc = "new"
    /\ LET f == PieceFactors(num_pieces)
       IN  IF f.ok
           THEN /\ piece_factors' = f.factors
                /\ runtime_pc' = "ready"
           ELSE /\ piece_factors' = piece_factors
                /\ runtime_pc' = "raised"
    /\ UNCHANGED <<num_pieces, launch_spaces, plan_shape, plan_result,
                   plan_calls, tiles>>
    /\ UNCHANGED <<fmvars, rtvars, ptvars, cfvars>>

\* A client asks for the launch space of plan_shape.
Plan ==
    /\ runtime_pc = "ready"
    /\ plan_calls < MaxPlanCalls
    /\ LET r == LaunchSpaceByShape(plan_shape, num_pieces, piece_factors,
                                   launch_spaces)
       IN  /\ plan_result' = r.result
           /\ launch_spaces' = r.cache
    /\ plan_calls' = plan_calls + 1
    /\ UNCHANGED <<num_pieces, piece_factors, plan_shape, tiles, runtime_pc>>
    /\ UNCHANGED <<fmvars, rtvars, ptvars, cfvars>>

\* A client asks once for the tile shape of plan_shape under a launch space
\* of as many dimensions.
TileShape(space) ==
    /\ tiles = None
    /\ tiles' = Some([launch_space |-> space,
                      tile_shape |-> ComputeTileShape(plan_shape, space)])
    /\ UNCHANGED <<num_pieces, piece_factors, launch_spaces, plan_shape,
                   plan_result, plan_calls, runtime_pc>>
    /\ UNCHANGED <<fmvars, rtvars, ptvars, cfvars>>

\* ------------------------------------------------------ the partition cache

\* The views over the one region of the model: r1 and r2 are the views of
\* two fields that allocate_field returned, d1 is a view a client derived
\* with a coordinate transform.
RegionFields == {"r1", "r2", "d1"}

\* The shape of the region and of its views r1 and r2.
region_shape == <<2, 2>>

\* An AffineTransform from view to region coordinates: x -> trans x + offset.
Identity == [trans |-> <<<<1, 0>>, <<0, 1>>>>, offset |-> <<0, 0>>]

\* The transform of a view that repeats a column of the region along its
\* second axis.
Broadcast == [trans |-> <<<<1, 0>>, <<0, 0>>>>, offset |-> <<0, 0>>]

Transforms == {None, Some(Identity), Some(Broadcast)}

\* RegionField.transform and RegionField.shape of every view.
ViewTransform(v) == IF v = "d1" THEN Some(Broadcast) ELSE None

ViewShape(v) == region_shape

\* RegionField.parent of every view.
ViewParent(v) == IF v = "d1" THEN Some("r1") ELSE None

ColorShapes == {<<2, 1>>, <<2, 2>>}

TileShapes == {<<1, 1>>, <<1, 2>>}

Offsets == {<<0, 0>>, <<0, 1>>}

\* The inner product of two tuples of the length of b.
RECURSIVE Dot(_, _)
Dot(a, b) == IF b = <<>> THEN 0 ELSE Head(a) * Head(b) + Dot(Tail(a), Tail(b))

\* AffineTransform.apply
Apply(transform, point) ==
    [m \in 1..Len(transform.trans) |->
        Dot(transform.trans[m], point) + transform.offset[m]]

\* Transform.compose: the matrix of the transform after the tile scaling.
Compose(tile_shape, transform) ==
    [m \in 1..Len(transform.trans) |->
        [n \in 1..Len(tile_shape) |-> transform.trans[m][n] * tile_shape[n]]]

\* The diagonal matrix with tile_shape on its diagonal.
TileTransform(tile_shape) ==
    [m \in 1..Len(tile_shape) |->
        [n \in 1..Len(tile_shape) |-> IF m = n THEN tile_shape[m] ELSE 0]]

\* _find_or_create_partition: the functor and the color bounds that a request
\* is compared on. offset is None or <<tuple>>, transform is None or <<t>>.
Functor(color_shape, tile_shape, offset, transform) ==
    LET lo0 == [d \in 1..Len(tile_shape) |-> 0]
        hi0 == [d \in 1..Len(tile_shape) |-> tile_shape[d] - 1]
        lo1 == IF offset # None
               THEN [d \in 1..Len(tile_shape) |-> lo0[d] + offset[1][d]]
               ELSE lo0
        hi1 == IF offset # None
               THEN [d \in 1..Len(tile_shape) |-> hi0[d] + offset[1][d]]
               ELSE hi0
    IN  [transform |-> IF transform # None
                       THEN Compose(tile_shape, transform[1])
                       ELSE TileTransform(tile_shape),
         extent |-> IF transform # None
                    THEN [lo |-> Apply(transform[1], lo1),
                          hi |-> Apply(transform[1], hi1)]
                    ELSE [lo |-> lo1, hi |-> hi1],
         color_lo |-> [d \in 1..Len(color_shape) |-> 0],
         color_hi |-> [d \in 1..Len(color_shape) |-> color_shape[d] - 1]]

\* The search skips a difference in the color shape.
CongruentAnyColors(functor) ==
    {i \in 1..Len(children) :
        /\ children[i].functor.transform = functor.transform
        /\ children[i].functor.extent = functor.extent}

\* The loop over region.index_space.children: the congruent children.
Congruent(functor) ==
    {i \in 1..Len(children) :
        /\ children[i].functor.transform = functor.transform
        /\ children[i].functor.extent = functor.extent
        /\ children[i].functor.color_lo = functor.color_lo
        /\ children[i].functor.color_hi = functor.color_hi}

\* The search finds nothing.
FindChildNever(functor) == 0

\* The first congruent child, in the order of region.index_space.children;
\* 0 if there is none.
FindChild(functor) ==
    LET found == Congruent(functor)
    IN  IF found = {} THEN 0 ELSE CHOOSE i \in found : \A j \in found : i <= j

\* Every partition is made of the complete kind.
FindOrCreateAllComplete(color_shape, tile_shape, offset, transform, complete) ==
    LET functor == Functor(color_shape, tile_shape, offset, transform)
        found == FindChild(functor)
    IN  IF found # 0
        THEN [result |-> found, children |-> children]
        ELSE [result |-> Len(children) + 1,
              children |->
                  Append(children,
                         [functor |-> functor,
                          kind |-> "DISJOINT_COMPLETE",
                          color_shape |-> color_shape,
                          tile_shape |-> tile_shape,
                          tile_offset |-> offset])]

\* _find_or_create_partition: the child it returns and the children it leaves.
\* A Partition object is named by the place of its index partition in
\* region.index_space.children.
FindOrCreatePartition(color_shape, tile_shape, offset, transform, complete) ==
    LET functor == Functor(color_shape, tile_shape, offset, transform)
        found == FindChild(functor)
    IN  IF found # 0
        THEN [result |-> found, children |-> children]
        ELSE [result |-> Len(children) + 1,
              children |->
                  Append(children,
                         [functor |-> functor,
                          kind |-> IF complete THEN "DISJOINT_COMPLETE"
                                   ELSE "DISJOINT_INCOMPLETE",
                          color_shape |-> color_shape,
                          tile_shape |-> tile_shape,
                          tile_offset |-> offset])]

\* The record of one find_or_create call.
Called(view, color_shape, tile_shape, offset, transform, complete, result) ==
    [view |-> view, color_shape |-> color_shape, tile_shape |-> tile_shape,
     offset |-> offset, transform |-> transform, complete |-> complete,
     result |-> result,
     created |-> result > Len(children)]

\* A library calls _find_or_create_partition on the region.
FindOrCreate(color_shape, tile_shape, offset, transform, complete) ==
    /\ Len(part_calls) < MaxPartCalls
    /\ LET r == FindOrCreatePartition(color_shape, tile_shape, offset,
                                      transform, complete)
       IN  /\ children' = r.children
           /\ part_calls' = Append(part_calls,
                                   Called(None, color_shape, tile_shape, offset,
                                          transform, complete, r.result))
    /\ UNCHANGED <<key_partition, launch_space, derived>>
    /\ UNCHANGED <<fmvars, rtvars, plvars, cfvars>>

\* RegionField.find_or_create_partition; tile_shape and offset are None where
\* the caller leaves them out.
ViewFindOrCreate(v, color_shape, tile_shape_arg, offset_arg) ==
    /\ Len(part_calls) < MaxPartCalls
    /\ LET tile_shape == IF tile_shape_arg = None
                         THEN ComputeTileShape(ViewShape(v), color_shape)
                         ELSE tile_shape_arg[1]
           offset == IF offset_arg = None
                     THEN [d \in 1..Len(color_shape) |-> 0]
                     ELSE offset_arg[1]
           key == key_partition[v]
       IN  IF /\ key # None
              /\ color_shape = children[key[1]].color_shape
              /\ tile_shape = children[key[1]].tile_shape
              /\ Some(offset) = children[key[1]].tile_offset
           THEN /\ part_calls' = Append(part_calls,
                                        Called(Some(v), color_shape, tile_shape,
                                               Some(offset), ViewTransform(v),
                                               TRUE, key[1]))
                /\ UNCHANGED children
           ELSE LET r == FindOrCreatePartition(color_shape, tile_shape,
                                               Some(offset), ViewTransform(v),
                                               TRUE)
                IN  /\ children' = r.children
                    /\ part_calls' = Append(part_calls,
                                            Called(Some(v), color_shape,
                                                   tile_shape, Some(offset),
                                                   ViewTransform(v), TRUE,
                                                   r.result))
    /\ UNCHANGED <<key_partition, launch_space, derived>>
    /\ UNCHANGED <<fmvars, rtvars, plvars, cfvars>>

\* RegionField.find_or_create_key_partition of a view without a parent: the
\* natural partition of its shape, unless the view has a key partition or is
\* known to have no launch space.
KeyPartition(v) ==
    /\ Len(part_calls) < MaxPartCalls
    /\ ViewParent(v) = None
    /\ key_partition[v] = None
    /\ launch_space[v] # NoSpace
    /\ LET l == IF launch_space[v] # Unset
                THEN [result |-> launch_space[v], cache |-> launch_spaces]
                ELSE LaunchSpaceByShape(ViewShape(v), num_pieces, piece_factors,
                                        launch_spaces)
       IN  /\ launch_spaces' = l.cache
           /\ launch_space' = IF l.result = Failed THEN launch_space
                              ELSE [launch_space EXCEPT ![v] = l.result]
           /\ IF l.result.status = "space"
              THEN LET tile_shape == ComputeTileShape(ViewShape(v), l.result.space)
                       offset == Some([d \in 1..Len(l.result.space) |-> 0])
                       r == FindOrCreatePartition(l.result.space, tile_shape,
                                                  offset, ViewTransform(v), TRUE)
                   IN  /\ children' = r.children
                       /\ key_partition' =
                              [key_partition EXCEPT ![v] = Some(r.result)]
                       /\ part_calls' =
                              Append(part_calls,
                                     Called(Some(v), l.result.space, tile_shape,
                                            offset, ViewTransform(v), TRUE,
                                            r.result))
              ELSE UNCHANGED <<children, key_partition, part_calls>>
    /\ UNCHANGED <<num_pieces, piece_factors, plan_shape, plan_result, plan_calls,
                   tiles, runtime_pc, derived>>
    /\ UNCHANGED <<fmvars, rtvars, cfvars>>

\* ------------------------------------------------------------ derived views

\* The search of _find_or_create_partition over the children ch.
CongruentIn(ch, functor) ==
    {i \in 1..Len(ch) :
        /\ ch[i].functor.transform = functor.transform
        /\ ch[i].functor.extent = functor.extent
        /\ ch[i].functor.color_lo = functor.color_lo
        /\ ch[i].functor.color_hi = functor.color_hi}

\* _find_or_create_partition on a region whose children are ch.
FindOrCreateIn(ch, color_shape, tile_shape, offset, transform, complete) ==
    LET functor == Functor(color_shape, tile_shape, offset, transform)
        found == CongruentIn(ch, functor)
    IN  IF found # {}
        THEN [result |-> CHOOSE i \in found : \A j \in found : i <= j,
              children |-> ch]
        ELSE [result |-> Len(ch) + 1,
              children |->
                  Append(ch,
                         [functor |-> functor,
                          kind |-> IF complete THEN "DISJOINT_COMPLETE"
                                   ELSE "DISJOINT_INCOMPLETE",
                          color_shape |-> color_shape,
                          tile_shape |-> tile_shape,
                          tile_offset |-> offset])]

\* numpy's matrix-vector product and transpose, on tuples of rows; a matrix
\* of M rows has N columns.
MatVec(mat, vec) == [r \in 1..Len(mat) |-> Dot(mat[r], vec)]

Transpose(mat, N) == [n \in 1..N |-> [m \in 1..Len(mat) |-> mat[m][n]]]

Zeros(n) == [i \in 1..n |-> 0]

\* The loop at lines 527-540: no row of the transform holds two nonzero
\* coefficients or a coefficient other than 1.
Invertible(trans, N) ==
    \A m \in 1..Len(trans) :
        /\ \A n \in 1..N : trans[m][n] \in {0, 1}
        /\ \A n1, n2 \in 1..N : trans[m][n1] # 0 /\ trans[m][n2] # 0 => n1 = n2

\* What a call on the derived view leaves: the view and its root, the
\* planner's cache, the region's children, and how the call ended.
Outcome(d, cache, ch, result) ==
    [d |-> d, cache |-> cache, children |-> ch, result |-> result]

\* RegionField.find_or_create_key_partition of the root of d, a view without
\* parent or transform; key is the partition returned, raised is true where
\* the planner's assertion failed.
RootKeyPartition(d, cache, ch) ==
    IF d.root_key # None
    THEN [d |-> d, cache |-> cache, children |-> ch, raised |-> FALSE]
    ELSE IF d.root_launch = NoSpace
    THEN [d |-> d, cache |-> cache, children |-> ch, raised |-> FALSE]
    ELSE LET l == IF d.root_launch # Unset
                  THEN [result |-> d.root_launch, cache |-> cache]
                  ELSE LaunchSpaceByShape(d.root_shape, num_pieces,
                                          piece_factors, cache)
         IN  IF l.result = Failed
             THEN [d |-> d, cache |-> l.cache, children |-> ch, raised |-> TRUE]
             ELSE IF l.result = NoSpace
             THEN [d |-> [d EXCEPT !.root_launch = NoSpace], cache |-> l.cache,
                   children |-> ch, raised |-> FALSE]
             ELSE LET space == l.result.space
                      r == FindOrCreateIn(ch, space,
                                          ComputeTileShape(d.root_shape, space),
                                          Some(Zeros(Len(space))), None, TRUE)
                  IN  [d |-> [d EXCEPT !.root_launch = l.result,
                                       !.root_key = Some(r.result)],
                       cache |-> l.cache, children |-> r.children,
                       raised |-> FALSE]

\* Lines 541-566: the transform is not invertible, and the view gets the
\* partition of its own shape. The planner's None is not the () of line 548,
\* so compute_tile_shape is given None and len(None) raises TypeError.
DerivedFallback(d, cache, ch) ==
    LET l == LaunchSpaceByShape(d.shape, num_pieces, piece_factors, cache)
    IN  IF l.result.status # "space"
        THEN Outcome(d, l.cache, ch, "raised")
        ELSE LET space == l.result.space
                 r == FindOrCreateIn(ch, space, ComputeTileShape(d.shape, space),
                                     Some(Zeros(Len(space))), d.transform, TRUE)
             IN  Outcome([d EXCEPT !.key_partition = Some(r.result)],
                         l.cache, r.children, "partition")

\* Lines 604-636: the view's tiles color_lo to color_hi of color_tile
\* elements each; lo is the view's lower bound in the coordinates of the tiles.
DerivedTiles(d, cache, ch, lo, color_lo, color_hi, color_tile) ==
    LET color_shape == [i \in 1..Len(color_lo) |-> (color_hi[i] - color_lo[i]) + 1]
        volume == Product(color_shape)
        offset == [i \in 1..Len(lo) |->
                      IF lo[i] % color_tile[i] = 0 THEN 0
                      ELSE (lo[i] % color_tile[i]) - color_tile[i]]
    IN  IF ~(volume > 0) THEN Outcome(d, cache, ch, "raised")
        ELSE IF volume = 1
        THEN Outcome([d EXCEPT !.launch_space = NoSpace,
                               !.shard_point = Some(color_lo)],
                     cache, ch, "none")
        ELSE LET r == FindOrCreateIn(ch, color_shape, color_tile, Some(offset),
                                     d.transform, TRUE)
             IN  Outcome([d EXCEPT !.key_partition = Some(r.result)],
                         cache, r.children, "partition")

\* RegionField.find_or_create_key_partition of the derived view d0 (lines
\* 492-636 and 653); root is what the call on the root at line 503 leaves.
DerivedKeyPartition(d0, cache0, ch0, root) ==
    IF d0.key_partition # None THEN Outcome(d0, cache0, ch0, "partition")
    ELSE IF d0.launch_space = NoSpace THEN Outcome(d0, cache0, ch0, "none")
    ELSE
    LET d == root.d
        cache == root.cache
        ch == root.children
    IN  IF root.raised THEN Outcome(d, cache, ch, "raised")
        ELSE IF d.root_key = None
        THEN Outcome([d EXCEPT !.launch_space = NoSpace], cache, ch, "none")
        ELSE
        LET N == Len(d.shape)
            tile_shape == ch[d.root_key[1]].tile_shape
            lo0 == Zeros(N)
            hi0 == [n \in 1..N |-> d.shape[n] - 1]
            lo == IF d.transform # None THEN Apply(d.transform[1], lo0) ELSE lo0
            hi == IF d.transform # None THEN Apply(d.transform[1], hi0) ELSE hi0
        IN  IF Len(lo) # Len(tile_shape) THEN Outcome(d, cache, ch, "raised")
            ELSE
            LET color_lo == [m \in 1..Len(lo) |-> lo[m] \div tile_shape[m]]
                color_hi == [m \in 1..Len(hi) |-> hi[m] \div tile_shape[m]]
            IN  IF d.transform = None
                THEN DerivedTiles(d, cache, ch, lo, color_lo, color_hi, tile_shape)
                ELSE IF ~Invertible(d.transform[1].trans, N)
                THEN DerivedFallback(d, cache, ch)
                ELSE LET inverse == Transpose(d.transform[1].trans, N)
                         tile_offset == [n \in 1..N |->
                                            IF \A m \in 1..Len(inverse[n]) :
                                                   inverse[n][m] = 0
                                            THEN 1 ELSE 0]
                         tile == MatVec(inverse, tile_shape)
                     IN  DerivedTiles(d, cache, ch, lo0,
                                      MatVec(inverse, color_lo),
                                      MatVec(inverse, color_hi),
                                      [n \in 1..N |-> tile[n] + tile_offset[n]])

\* A client calls find_or_create_key_partition on the derived view.
DerivedKey ==
    /\ derived # None
    /\ derived[1].calls < MaxKeyCalls
    /\ \E root \in {RootKeyPartition(derived[1], launch_spaces, children)} :
       \E r \in {DerivedKeyPartition(derived[1], launch_spaces, children,
                                     root)} :
           /\ derived' = Some([r.d EXCEPT !.calls = @ + 1,
                                          !.result = r.result])
           /\ launch_spaces' = r.cache
           /\ children' = r.children
    /\ UNCHANGED <<key_partition, launch_space, part_calls>>
    /\ UNCHANGED <<num_pieces, piece_factors, plan_shape, plan_result, plan_calls,
                   tiles, runtime_pc>>
    /\ UNCHANGED <<fmvars, rtvars, cfvars>>

\* The coefficients of a view's transform: a reversed, a dropped, a plain and
\* a strided axis.
Coefficients == {-1, 0, 1, 2}

\* The shapes of the roots: one and two dimensions.
RootShapes == {<<4>>, <<2, 4>>}

\* The points of a view of this shape.
Points(sh) == {p \in Tuples(Len(sh), 0..MaxViewExtent) :
                  \A n \in 1..Len(sh) : p[n] < sh[n]}

\* The transforms that map the origin and every point of a view of shape sh
\* into a root of shape rs.
ViewTransforms(rs, sh) ==
    {t \in [trans : Tuples(Len(rs), Tuples(Len(sh), Coefficients)),
            offset : Tuples(Len(rs), 0..MaxOf(rs))] :
        \A p \in Points(sh) \cup {Zeros(Len(sh))} :
            \A m \in 1..Len(rs) :
                Apply(t, p)[m] \in 0..(rs[m] - 1)}

\* The shapes of the derived views, empty ones among them.
ViewShapes == UNION {Tuples(n, 0..MaxViewExtent) : n \in 1..2}

\* RegionField.__init__ of a root view of shape rs and of a view of shape sh
\* derived from it with transform t.
View(rs, sh, t) ==
    [root_shape |-> rs, shape |-> sh, transform |-> t, root_key |-> None,
     root_launch |-> Unset, key_partition |-> None, launch_space |-> Unset,
     shard_point |-> None, calls |-> 0, result |-> "unset"]

\* The derived views: with a transform into the root, or without one where
\* the view is a leading part of the root.
DerivedViews(roots, shapes) ==
    UNION {{View(rs, sh, Some(t)) : t \in ViewTransforms(rs, sh)}
           \cup (IF /\ Len(sh) = Len(rs)
                    /\ \A m \in 1..Len(rs) : sh[m] <= rs[m]
                 THEN {View(rs, sh, None)} ELSE {}) :
           rs \in roots, sh \in shapes}

\* A root view and a view derived from it, before either is asked for its key
\* partition.
ViewInit ==
    /\ children = <<>>
    /\ key_partition = [v \in RegionFields |-> None]
    /\ launch_space = [v \in RegionFields |-> Unset]
    /\ part_calls = <<>>
    /\ derived \in {Some(d) : d \in DerivedViews(RootShapes, ViewShapes)}

\* Runtime.__init__ with num_pieces drawn from P, before the planner is asked
\* about a shape drawn from S.
PlanInit(P, S) ==
    /\ num_pieces \in P
    /\ piece_factors = PieceFactors(num_pieces).factors
    /\ launch_spaces = [s \in {} |-> NoSpace]
    /\ plan_shape \in S
    /\ plan_result = Unset
    /\ plan_calls = 0
    /\ tiles = None
    /\ runtime_pc = "ready"

\* The start of Runtime.__init__ with num_pieces drawn from P: nothing is
\* factored yet.
PlanNew(P, S) ==
    /\ num_pieces \in P
    /\ piece_factors = <<>>
    /\ launch_spaces = [s \in {} |-> NoSpace]
    /\ plan_shape \in S
    /\ plan_result = Unset
    /\ plan_calls = 0
    /\ tiles = None
    /\ runtime_pc = "new"

\* A region without partitions and its views as RegionField.__init__ leaves
\* them.
PartInit ==
    /\ children = <<>>
    /\ key_partition = [v \in RegionFields |-> None]
    /\ launch_space = [v \in RegionFields |-> Unset]
    /\ part_calls = <<>>
    /\ derived = None

\* One run of the program on every shard.
Init ==
    /\ FMInit({"a"} \X Shards)
    /\ att_call = None
    /\ PlanInit({default_num_pieces}, {shape})
    /\ PartInit
    /\ ReuseInit({max_field_reuse_size}, {max_field_reuse_frequency}, {<<nbytes>>})

Next == FMNext

Spec == Init /\ [][Next]_vars

\* Two runs of the program side by side.
InitRuns ==
    /\ FMInit(AllProcs)
    /\ att_call = None
    /\ PlanInit({default_num_pieces}, {shape})
    /\ PartInit
    /\ ReuseInit({max_field_reuse_size}, {max_field_reuse_frequency}, {<<nbytes>>})

SpecRuns == InitRuns /\ [][Next]_vars

\* The program without control replication, with attach_array.
InitRt ==
    /\ FMInit({RT})
    /\ att_call = None
    /\ PlanInit({default_num_pieces}, {shape})
    /\ PartInit
    /\ ReuseInit({max_field_reuse_size}, {max_field_reuse_frequency}, {<<nbytes>>})

NextRt ==
    \/ FMNext
    \/ \E array \in Buffers : AttachNew(array)
    \/ \E array \in Buffers : AttachAgain(array)
    \/ \E v \in att_views : DropView(v)

SpecRt == InitRt /\ [][NextRt]_vars

\* The AttachmentManager from its first attach_array to the end of destroy,
\* its calls recorded.
InitAtt ==
    /\ FMInit({RT})
    /\ att_call = Some([tick |-> 0, op |-> "none", array |-> None,
                        raised |-> "none"])
    /\ PlanInit({default_num_pieces}, {shape})
    /\ PartInit
    /\ ReuseInit({max_field_reuse_size}, {max_field_reuse_frequency}, {<<nbytes>>})

NextAtt ==
    \/ \E array \in Buffers : AttachNew(array)
    \/ \E array \in Buffers : AttachAgain(array)
    \/ \E array \in Buffers : RemoveAttachment(array)
    \/ \E v \in att_views : DropView(v)
    \/ \E v \in att_views : LoseView(v)
    \/ Collect
    \/ Resolve(RT)
    \/ Recheck(RT)
    \/ Fresh(RT)
    \/ \E k \in 1..MaxAllocs : Free(RT, k)
    \/ DestroyBegin
    \/ DestroyPerform
    \/ DestroyDrained
    \/ DestroyPrune
    \/ DestroyEnd
    \/ \E f \in pending \cup Lost : Complete(f)

SpecAtt == InitAtt /\ [][NextAtt]_vars

\* The byte sizes of the classes a FieldManager is made for: every size up to
\* MaxSize, and sizes around the multiples of the runtime's own
\* max_field_reuse_size, that of the modelled class among them.
ClassSizes ==
    0..MaxSize \cup {max_field_reuse_size, max_field_reuse_size + 1, nbytes,
                     32 * max_field_reuse_size, 32 * max_field_reuse_size + 1}

\* The program without control replication from its first allocation to the
\* end of Runtime.destroy, with the fields its views release on the way.
InitDown ==
    /\ FMInit({RT})
    /\ att_call = None
    /\ PlanInit({default_num_pieces}, {shape})
    /\ PartInit
    /\ ReuseInit({max_field_reuse_size}, {max_field_reuse_frequency}, {<<nbytes>>})

NextDown ==
    \/ ClientAlloc
    \/ \E array \in Buffers : AttachNew(array)
    \/ \E v \in att_views : DropView(v)
    \/ Resolve(RT)
    \/ Recheck(RT)
    \/ Fresh(RT)
    \/ \E k \in 1..MaxAllocs : Free(RT, k)
    \/ DestroyBegin
    \/ DestroyPerform
    \/ DestroyDrained
    \/ DestroyPrune
    \/ DestroyEnd
    \/ \E f \in pending \cup Lost : Complete(f)
    \/ RuntimeDrop
    \/ RuntimeDestroyed

SpecDown == InitDown /\ [][NextDown]_vars

\* One shard whose client calls FieldManager.free_field itself, with either
\* value of `ordered`; the calls are recorded.
InitFree ==
    /\ FMInit({RT})
    /\ att_call = Some([tick |-> 0, op |-> "none"])
    /\ PlanInit({default_num_pieces}, {shape})
    /\ PartInit
    /\ ReuseInit({max_field_reuse_size}, {max_field_reuse_frequency}, {<<nbytes>>})

NextFree ==
    \/ AllocBegin(RT)
    \/ Resolve(RT)
    \/ Recheck(RT)
    \/ Fresh(RT)
    \/ \E k \in 1..MaxAllocs : \E ordered \in BOOLEAN : ManagerFree(RT, k, ordered)

SpecFree == InitFree /\ [][NextFree]_vars

\* The manager of a class of twice the bytes, whose match frequency is 1, on
\* one shard: a round is dispatched by every allocate_field call.
InitDrain ==
    /\ FMInit({RT})
    /\ att_call = None
    /\ PlanInit({default_num_pieces}, {shape})
    /\ PartInit
    /\ ReuseInit({max_field_reuse_size}, {max_field_reuse_frequency},
                 {<<2 * nbytes>>})

NextDrain ==
    \/ AllocBegin(RT)
    \/ Resolve(RT)
    \/ Recheck(RT)
    \/ Fresh(RT)
    \/ \E k \in 1..MaxAllocsDrain : Free(RT, k)

SpecDrain == InitDrain /\ [][NextDrain]_vars

\* FieldManager.__init__ for classes of these sizes, under every pair of reuse
\* settings up to MaxReuse and under the runtime's own.
InitFreq ==
    /\ FMInit({RT})
    /\ att_call = None
    /\ PlanInit({default_num_pieces}, {shape})
    /\ PartInit
    /\ \/ ReuseInit(1..MaxReuse, 1..MaxReuse, {<<>>})
       \/ ReuseInit({max_field_reuse_size}, {max_field_reuse_frequency}, {<<>>})

NextFreq == \E size \in ClassSizes : NewFieldManager(size)

SpecFreq == InitFreq /\ [][NextFreq]_vars

\* The planner applied to one shape, for every supported num_pieces.
InitPlan ==
    /\ FMInit({RT})
    /\ att_call = None
    /\ PlanInit(SupportedPieces \cup ScenarioPieces, Shapes \cup ScenarioShapes)
    /\ PartInit
    /\ ReuseInit({max_field_reuse_size}, {max_field_reuse_frequency}, {<<nbytes>>})

NextPlan == Plan

SpecPlan == InitPlan /\ [][NextPlan]_vars

\* Runtime.__init__ for every piece count up to MaxNumPieces, followed by the
\* planner where a Runtime came to exist.
InitCtor ==
    /\ FMInit({RT})
    /\ att_call = None
    /\ PlanNew(1..MaxNumPieces, Shapes)
    /\ PartInit
    /\ ReuseInit({max_field_reuse_size}, {max_field_reuse_frequency}, {<<nbytes>>})

NextCtor ==
    \/ RuntimeInit
    \/ Plan

SpecCtor == InitCtor /\ [][NextCtor]_vars

\* The AttachmentManager as in SpecAtt, with the futures followed that
\* detach_array dispatched and did not come to track.
InitLost ==
    /\ PoolInit({RT})
    /\ lost = Some({})
    /\ att_call = None
    /\ PlanInit({default_num_pieces}, {shape})
    /\ PartInit
    /\ ReuseInit({max_field_reuse_size}, {max_field_reuse_frequency}, {<<nbytes>>})

SpecLost == InitLost /\ [][NextAtt]_vars

\* compute_tile_shape applied to one shape, for every launch space of up to
\* one piece more than the largest extent in a dimension.
InitTile ==
    /\ FMInit({RT})
    /\ att_call = None
    /\ PlanInit({default_num_pieces}, Shapes \cup ScenarioShapes)
    /\ PartInit
    /\ ReuseInit({max_field_reuse_size}, {max_field_reuse_frequency}, {<<nbytes>>})

NextTile ==
    \E space \in Tuples(Len(plan_shape), 1..(MaxExtent + 1)) : TileShape(space)

SpecTile == InitTile /\ [][NextTile]_vars

\* find_or_create_key_partition on every derived view, for two piece counts.
InitView ==
    /\ FMInit({RT})
    /\ att_call = None
    /\ PlanInit({2, default_num_pieces}, {shape})
    /\ ViewInit
    /\ ReuseInit({max_field_reuse_size}, {max_field_reuse_frequency}, {<<nbytes>>})

NextView == DerivedKey

SpecView == InitView /\ [][NextView]_vars

\* Partition requests on one region, from libraries and through its views.
InitPart ==
    /\ FMInit({RT})
    /\ att_call = None
    /\ PlanInit({default_num_pieces}, {region_shape})
    /\ PartInit
    /\ ReuseInit({max_field_reuse_size}, {max_field_reuse_frequency}, {<<nbytes>>})

NextPart ==
    \/ \E color_shape \in ColorShapes, tile_shape \in TileShapes,
          offset \in {None} \cup {Some(o) : o \in Offsets},
          transform \in Transforms, complete \in BOOLEAN :
          FindOrCreate(color_shape, tile_shape, offset, transform, complete)
    \/ \E v \in RegionFields, color_shape \in ColorShapes,
          tile_shape \in {None} \cup {Some(s) : s \in TileShapes},
          offset \in {None} \cup {Some(o) : o \in Offsets} :
          ViewFindOrCreate(v, color_shape, tile_shape, offset)
    \/ \E v \in RegionFields : KeyPartition(v)

SpecPart == InitPart /\ [][NextPart]_vars

\* ------------------------------------------------- claims: the field pool

\* The pairs of the Fields still held on p.
LivePairs(p) == {returned[p][k] : k \in live[p]}

\* How often x occurs in sequence s.
Count(s, x) == Cardinality({i \in 1..Len(s) : s[i] = x})

\* The round p resolved last (rounds are resolved oldest first).
LastResolved(p) == Len(rounds[p]) - Len(matches[p])

\* Two shards of one run at the same point of the program.
SamePoint(p, q) ==
    /\ p[1] = q[1]
    /\ NumCalls(p) = NumCalls(q)
    /\ pc[p] = pc[q]
    /\ Len(matches[p]) = Len(matches[q])

\* C1: shards of one run that made the same allocate calls and resolved the
\* same rounds hold the same sanitized free queue, pairs and order, whatever
\* the points at which each shard released its fields.
C1_PoolDeterminism ==
    \A p \in procs : \A q \in procs :
        /\ SamePoint(p, q) => free_fields[p] = free_fields[q]
        /\ (p[1] = q[1] /\ NumCalls(p) = NumCalls(q)
              /\ pc[p] = "idle" /\ pc[q] = "idle") =>
                  /\ Len(matches[p]) = Len(matches[q])
                  /\ free_fields[p] = free_fields[q]

\* C1 witness: two shards have just resolved the same round, which agreed on
\* pairs, and their local lists differ because they released at different
\* points.
C1_Witness ==
    \E p \in procs : \E q \in procs :
        /\ p # q
        /\ SamePoint(p, q)
        /\ pc[p] = "check"
        /\ Len(free_fields[p]) > 0
        /\ rounds[p][LastResolved(p)] # rounds[q][LastResolved(q)]

\* C2 as amended: within one run the k-th allocate call returns the same pair
\* on every shard, whatever the points at which each shard released its
\* fields.
C2_SameAcrossShards ==
    \A p \in procs : \A q \in procs :
        p[1] = q[1] =>
            \A k \in 1..Min(Len(returned[p]), Len(returned[q])) :
                returned[p][k] = returned[q][k]

\* C2 witness: two shards of a run released at different points and both
\* finished their second allocate call.
C2_Witness ==
    \E p \in procs : \E q \in procs :
        /\ p[1] = q[1]
        /\ freed_at[p] # freed_at[q]
        /\ Len(returned[p]) = 2
        /\ Len(returned[q]) = 2

\* C2 as stated: two runs in which the other shards release at the same
\* points return the same pair from the k-th allocate call of shard s,
\* whatever the points at which s itself releases.
C2_SameAcrossRuns ==
    \A s \in Shards :
        (\A t \in Shards \ {s} :
            /\ freed_at[<<"a", t>>] = freed_at[<<"b", t>>]
            /\ NumCalls(<<"a", t>>) = NumCalls(<<"b", t>>)
            /\ pc[<<"a", t>>] = "idle" /\ pc[<<"b", t>>] = "idle")
        => \A k \in 1..Min(Len(returned[<<"a", s>>]), Len(returned[<<"b", s>>])) :
               returned[<<"a", s>>][k] = returned[<<"b", s>>][k]

\* The live views of the program without control replication: the client's
\* view of each field it allocated and still holds, and the views handed out
\* by attach_array.
Views ==
    {[field |-> k, n |-> 0] : k \in live[RT] \ AttFields}
    \cup {[field |-> v.field, n |-> v.n] : v \in att_views}

\* C3: every view's Field is live, two live views over the same pair are views
\* of one attachment's Field, and no two live Fields hold the same pair, so
\* that allocate never returns a pair a live Field still holds.
C3_NoDoubleAllocation ==
    /\ \A v \in Views : v.field \in live[RT]
    /\ \A v \in Views : \A w \in Views :
          (v # w /\ returned[RT][v.field] = returned[RT][w.field]) =>
              \E b \in Registered :
                  attachments[b].field = v.field /\ v.field = w.field
    /\ \A p \in procs : \A j \in live[p] : \A k \in live[p] :
          j # k => returned[p][j] # returned[p][k]

\* C3 witness: two views share an attachment's pair while a pair that was
\* released and agreed on is held again by a later allocation.
C3_Witness ==
    /\ \E v \in att_views : \E w \in att_views : v # w /\ v.field = w.field
    /\ \E j \in 1..Len(returned[RT]) : \E k \in live[RT] :
          j < k /\ returned[RT][j] = returned[RT][k]

\* C4: after n allocate calls a shard has dispatched n \div f rounds, and a
\* round is dispatched only by the call whose number is the round's number
\* times f, whatever was released in between.
C4_RoundsOnSchedule ==
    /\ [](\A p \in procs : Len(rounds[p]) = NumCalls(p) \div match_frequency)
    /\ [][\A p \in procs :
            Len(rounds'[p]) # Len(rounds[p]) =>
                /\ Len(rounds'[p]) = Len(rounds[p]) + 1
                /\ NumCalls(p)' = NumCalls(p) + 1
                /\ NumCalls(p)' = Len(rounds'[p]) * match_frequency]_vars

\* C4 witness: a shard dispatched one round with nothing to offer and one
\* with released pairs.
C4_Witness ==
    \E p \in procs :
        /\ Len(rounds[p]) = 2
        /\ rounds[p][1] = <<>>
        /\ Len(rounds[p][2]) = 2

\* The places a pair can be in on p, one after the other.
RECURSIVE Candidates(_, _)
Candidates(p, ms) ==
    IF ms = <<>> THEN <<>> ELSE rounds[p][Head(ms)] \o Candidates(p, Tail(ms))

Places(p, x) ==
    Cardinality({k \in live[p] : returned[p][k] = x})
    + Count(freed_fields[p], x)
    + Count(Candidates(p, matches[p]), x)
    + Count(free_fields[p], x)

\* C5: every pair handed out or pooled is in exactly one place: held by a
\* live field, in the unsanitized list, a candidate of one outstanding round,
\* or once in the sanitized queue.
C5_PairsInOnePlace ==
    \A p \in procs :
        \A x \in ToSet(returned[p]) \cup pooled[p] : Places(p, x) = 1

\* C5 witness: a shard holds live fields, a released pair in the unsanitized
\* list and a candidate of an outstanding round, after it handed out a pooled
\* pair from the sanitized queue.
C5_Witness ==
    \E p \in procs :
        /\ live[p] # {}
        /\ Len(freed_fields[p]) > 0
        /\ Len(Candidates(p, matches[p])) > 0
        /\ ToSet(returned[p]) \cap pooled[p] # {}

\* C6: a pair released by a view goes to the tail of the unsanitized list and
\* leaves the sanitized queue alone, and allocate does not return it before a
\* round that offered it was resolved with the pair agreed.
C6_ReleaseIsDeferred ==
    [][\A p \in procs :
        /\ \A k \in live[p] \ live'[p] :
              /\ freed_fields'[p] = Append(freed_fields[p], returned[p][k])
              /\ free_fields'[p] = free_fields[p]
        /\ Len(returned'[p]) > Len(returned[p]) =>
              Last(returned'[p]) \notin unagreed'[p]
        /\ \A x \in unagreed'[p] : Count(free_fields'[p], x) = 0]_vars

\* C6 witness: a pair was released, agreed on in a round and returned again.
C6_Witness ==
    \E p \in procs : \E j \in 1..Len(returned[p]) : \E k \in 1..Len(returned[p]) :
        /\ j < k
        /\ returned[p][j] = returned[p][k]
        /\ returned[p][k] \notin unagreed[p]
        /\ j \notin live[p]

\* The candidates of s that are not in the agreed buffer, in local order.
Unmatched(fields, output) ==
    LET notfound(x) == ~Agrees(output, x) IN SelectSeq(fields, notfound)

\* C7: resolving a round appends the agreed pairs to the sanitized queue in the
\* order of the returned buffer and the other candidates to the unsanitized
\* list; with nothing agreed every candidate goes to the unsanitized list and
\* the sanitized queue stays as it is.
C7_Resolution ==
    [][\A p \in procs :
        (pc[p] = "drain" /\ pc'[p] = "check") =>
            LET fields == rounds[p][Head(matches[p])]
                agreed == IF Len(fields) > 0 THEN Output(p, Head(matches[p]))
                          ELSE <<>>
            IN  /\ free_fields'[p] = free_fields[p] \o agreed
                /\ freed_fields'[p] = freed_fields[p] \o Unmatched(fields, agreed)
                /\ Len(agreed) = 0 =>
                      /\ free_fields'[p] = free_fields[p]
                      /\ freed_fields'[p] = freed_fields[p] \o fields]_vars

\* C7 witness: a shard has just resolved a round that agreed on two pairs which
\* it had released in the other order.
C7_Witness ==
    \E p \in procs :
        /\ pc[p] = "check"
        /\ LastResolved(p) > 0
        /\ LET fields == rounds[p][LastResolved(p)]
           IN  /\ Len(fields) = 2
               /\ Len(free_fields[p]) = 2
               /\ free_fields[p] = <<fields[2], fields[1]>>

\* A call of part_calls names its request by these four parameters.
Request(c) == <<c.color_shape, c.tile_shape, c.offset, c.transform>>

\* How many of the four parameters differ between two calls.
Changed(c, d) == Cardinality({n \in 1..4 : Request(c)[n] # Request(d)[n]})

\* C8: two find_or_create calls on the region with identical (color_shape,
\* tile_shape, offset, transform), from one view, from two views or from a
\* library, return the same Partition object, and the later call adds no
\* child partition to the region.
C8_SameRequestSamePartition ==
    \A i, j \in 1..Len(part_calls) :
        (i < j /\ Request(part_calls[i]) = Request(part_calls[j])) =>
            /\ part_calls[j].result = part_calls[i].result
            /\ ~part_calls[j].created

\* Two views of different fields were given the same object for the same
\* request, and the region has the one child.
C8_Witness ==
    \E i, j \in 1..Len(part_calls) :
        /\ i < j
        /\ Request(part_calls[i]) = Request(part_calls[j])
        /\ part_calls[i].view = Some("r1")
        /\ part_calls[j].view = Some("r2")
        /\ part_calls[i].created
        /\ part_calls[j].result = part_calls[i].result
        /\ Len(children) = 1

\* C9 as amended: a find_or_create call returns a Partition object distinct
\* from an earlier call's whenever the two requests differ in the color
\* shape, in the tiling matrix (transform composed with the tile scaling) or
\* in the extent rectangle (the tile's bounds, shifted by the offset and
\* projected by the transform); without a transform and with the offset
\* given, that is whenever color_shape, tile_shape or offset differ.
C9_DistinctWhenFunctorDiffers ==
    \A i, j \in 1..Len(part_calls) :
        LET c == part_calls[i]
            d == part_calls[j]
        IN  i < j =>
            /\ ( \/ c.color_shape # d.color_shape
                 \/ Functor(c.color_shape, c.tile_shape, c.offset, c.transform)
                    # Functor(d.color_shape, d.tile_shape, d.offset, d.transform) )
               => d.result # c.result
            /\ ( /\ c.transform = None /\ d.transform = None
                 /\ c.offset # None /\ d.offset # None
                 /\ Request(c) # Request(d) )
               => d.result # c.result

\* A later call changed the tile shape only, under no transform, and was
\* given a new child.
C9_Witness ==
    \E i, j \in 1..Len(part_calls) :
        /\ i < j
        /\ Changed(part_calls[i], part_calls[j]) = 1
        /\ part_calls[i].tile_shape # part_calls[j].tile_shape
        /\ part_calls[i].transform = None
        /\ part_calls[j].created
        /\ part_calls[j].result # part_calls[i].result

\* C9 as stated: a call with any one of color_shape, tile_shape, offset or
\* transform changed relative to an earlier call returns a distinct
\* Partition object.
C9_DistinctWhenOneChanged ==
    \A i, j \in 1..Len(part_calls) :
        (i < j /\ Changed(part_calls[i], part_calls[j]) = 1) =>
            part_calls[j].result # part_calls[i].result

\* C10: every per-dimension piece count the planner returns is at most the
\* shape's extent in that dimension.
C10_PiecesWithinExtent ==
    plan_result.status = "space" =>
        \A d \in 1..Len(plan_shape) : plan_result.space[d] <= plan_shape[d]

\* The dimensions of plan_shape of extent greater than 1, in order.
BigDims == SelectSeq([d \in 1..Len(plan_shape) |-> d], LAMBDA d : plan_shape[d] > 1)

\* The planner returned a launch space for a shape with n dimensions of
\* extent greater than 1.
Planned(n) == plan_result.status = "space" /\ Len(BigDims) = n

\* The factor pairs of num_pieces.
FactorPairs == {pq \in (1..num_pieces) \X (1..num_pieces) : pq[1] * pq[2] = num_pieces}

\* C11 as amended: for a shape with exactly two dimensions of extent greater
\* than 1, the two piece counts are those of a factor pair of num_pieces,
\* each trimmed to its extent, when the volume is at least num_pieces, and
\* the two extents themselves when it is less; their product equals
\* num_pieces only when nothing is trimmed.
C11_TrimmedFactorPair ==
    Planned(2) =>
        LET e1 == plan_shape[BigDims[1]]
            e2 == plan_shape[BigDims[2]]
            r1 == plan_result.space[BigDims[1]]
            r2 == plan_result.space[BigDims[2]]
        IN  /\ IF e1 * e2 < num_pieces
               THEN r1 = e1 /\ r2 = e2
               ELSE \E pq \in FactorPairs : r1 = Min(pq[1], e1) /\ r2 = Min(pq[2], e2)
            /\ (r1 < e1 /\ r2 < e2) => r1 * r2 = num_pieces

\* 3 pieces on a 2 by 2 shape: the pair (1, 3) was trimmed to (1, 2).
C11_Witness ==
    /\ Planned(2)
    /\ num_pieces = 3
    /\ plan_shape = <<2, 2>>
    /\ plan_result.space = <<1, 2>>

\* C11 as stated: for a shape with exactly two dimensions of extent greater
\* than 1, the product of the two piece counts returned equals num_pieces.
C11_FactorPair ==
    Planned(2) =>
        plan_result.space[BigDims[1]] * plan_result.space[BigDims[2]] = num_pieces

\* C12: for a shape with three or more dimensions of extent greater than 1,
\* the product of the returned piece counts divides num_pieces.
C12_ProductDivides ==
    (plan_result.status = "space" /\ Len(BigDims) >= 3) =>
        num_pieces % Product(plan_result.space) = 0

\* 6 pieces over a shape with three extents above 1, and a dimension of
\* extent 1 left alone.
C12_Witness ==
    /\ plan_result.status = "space"
    /\ Len(BigDims) >= 3
    /\ num_pieces = 6
    /\ Product(plan_result.space) = 6
    /\ \E d \in 1..Len(plan_shape) : plan_result.space[d] > 1

\* The longer side of the tiles of a launch space <<p, q>> on extents
\* <<e1, e2>>, by floor division as the planner measures it.
LongSideFloor(e1, e2, p, q) == Max(e1 \div p, e2 \div q)

\* The longer side of the tiles compute_tile_shape gives.
LongSideTile(e1, e2, p, q) ==
    Max(ComputeTileShape(<<e1>>, <<p>>)[1], ComputeTileShape(<<e2>>, <<q>>)[1])

OneDimSpace(d) ==
    Space([i \in 1..Len(plan_shape) |->
              IF i = d THEN Min(plan_shape[d], num_pieces) ELSE 1])

C15_TilesCover ==
    tiles # None =>
        LET pieces == tiles[1].launch_space
            t == tiles[1].tile_shape
        IN  /\ Len(t) = Len(plan_shape)
            /\ \A d \in 1..Len(plan_shape) :
                   plan_shape[d] >= 1 =>
                       /\ pieces[d] * (t[d] - 1) < plan_shape[d]
                       /\ plan_shape[d] <= pieces[d] * t[d]
            /\ (plan_shape = <<100>> /\ pieces = <<4>>) => t = <<25>>

\* The tile shape of 100 elements in 4 pieces, and of an extent its piece
\* count does not divide.
C15_Witness ==
    /\ tiles # None
    /\ \/ plan_shape = <<100>> /\ tiles[1] = [launch_space |-> <<4>>, tile_shape |-> <<25>>]
       \/ plan_shape = <<3>> /\ tiles[1] = [launch_space |-> <<2>>, tile_shape |-> <<2>>]

\* ------------------------------------------------ attachments and teardown

\* A step that is a call of `op` on the AttachmentManager, finished.
Call(op) ==
    /\ att_call # None
    /\ att_call' # att_call
    /\ att_call'[1].op = op

\* The buffer of the call that the step finishes.
CallArray == att_call'[1].array[1]

\* The views that the step hands out.
NewViews == att_views' \ att_views

\* C16: attach_array with a buffer whose (address, length) is registered
\* allocates no field and registers no entry, returns a view bound to the
\* field of the registered attachment, and adds exactly one to the count of
\* that attachment.
C16_AttachAgainShares ==
    [][(Call("attach_array") /\ CallArray \in Registered) =>
          /\ att_call'[1].raised = "none"
          /\ returned' = returned
          /\ field_space' = field_space
          /\ top_regions' = top_regions
          /\ DOMAIN attachments' = Registered
          /\ attachments'[CallArray].count = attachments[CallArray].count + 1
          /\ attachments'[CallArray].field = attachments[CallArray].field
          /\ \A b \in Registered \ {CallArray} : attachments'[b] = attachments[b]
          /\ att_views \subseteq att_views'
          /\ Cardinality(NewViews) = 1
          /\ \A v \in NewViews : v.field = attachments[CallArray].field]_vars

C16_Witness ==
    /\ att_call # None
    /\ att_call[1].op = "attach_array"
    /\ att_call[1].array[1] \in Registered
    /\ attachments[att_call[1].array[1]].count = 2
    /\ \E v \in att_views :
          /\ v.array = None
          /\ v.field = attachments[att_call[1].array[1]].field
    /\ Cardinality(Registered) = 2

\* C17: each remove_attachment of a registered buffer takes exactly one from
\* the count of its attachment, and the entry leaves the table exactly when
\* the count reaches zero.
C17_RemoveDecrements ==
    [][(Call("remove_attachment") /\ CallArray \in Registered) =>
          IF attachments[CallArray].count = 1
          THEN CallArray \notin DOMAIN attachments'
          ELSE /\ CallArray \in DOMAIN attachments'
               /\ attachments'[CallArray].count =
                      attachments[CallArray].count - 1]_vars

\* C18: attach_array with a buffer whose address range overlaps the range of
\* a registered attachment, without being that attachment's buffer, raises the
\* illegal-aliasing error and leaves the attachment table as it was.
C18_AliasRejected ==
    [][(/\ Call("attach_array")
        /\ CallArray \notin Registered
        /\ \E b \in Registered :
              /\ CallArray < b + nbytes
              /\ b < CallArray + nbytes) =>
          /\ att_call'[1].raised = "aliasing"
          /\ attachments' = attachments]_vars

C18_Witness ==
    /\ att_call # None
    /\ att_call[1].op = "attach_array"
    /\ att_call[1].raised = "aliasing"
    /\ att_call[1].array[1] \notin Registered
    /\ \E b \in Registered :
          /\ att_call[1].array[1] < b + nbytes
          /\ b < att_call[1].array[1] + nbytes

\* C19: remove_attachment with a buffer that is not registered raises an
\* error and changes nothing: the attachment table with every count, and the
\* registered, deferred and pending detachments are as before the call.
C19_RemoveUnknownRaises ==
    [][(Call("remove_attachment") /\ CallArray \notin Registered) =>
          /\ att_call'[1].raised = "not found"
          /\ attachments' = attachments
          /\ deferred' = deferred
          /\ pending' = pending
          /\ RegisteredDetachments' = RegisteredDetachments]_vars

C19_Witness ==
    /\ att_call # None
    /\ att_call[1].op = "remove_attachment"
    /\ att_call[1].raised = "not found"
    /\ att_call[1].array[1] \notin Registered
    /\ Registered # {}
    /\ deferred # <<>>
    /\ RegisteredDetachments # {}

\* C20: AttachmentManager.destroy runs to its end, and when it finishes the
\* deferred list and the pending set are empty: it never stops on an error
\* with detachments undispatched or completion tokens still pending.
C20_TeardownDrains ==
    /\ destroy_pc # "raised"
    /\ destroy_pc = "done" => (deferred = <<>> /\ pending = {})

\* ------------------------------------------------- the planner, continued

\* C29 as amended: the planner returns no launch space whenever num_pieces is
\* 1, and whenever no extent of the shape is greater than 1; a shape with one
\* extent greater than 1 is given a launch space.
C29_NoneWithoutBigDim ==
    /\ (plan_calls > 0 /\ (num_pieces = 1 \/ Len(BigDims) = 0)) =>
           plan_result = NoSpace
    /\ (plan_calls > 0 /\ num_pieces > 1 /\ Len(BigDims) = 1) =>
           plan_result # NoSpace

\* No launch space for one piece on a shape with extents above 1, and none
\* for a shape of zeros and ones with several pieces.
C29_Witness ==
    /\ plan_calls > 0
    /\ plan_result = NoSpace
    /\ \/ num_pieces = 1 /\ Len(BigDims) = 3
       \/ num_pieces = 4 /\ plan_shape = <<1, 0, 1>>

\* C29 as stated: the planner returns no launch space whenever num_pieces is
\* 1, and whenever at most one extent is greater than 1 and every other
\* extent is 0 or 1.
C29_NoneWithAtMostOneBigDim ==
    (plan_calls > 0 /\ (num_pieces = 1 \/ Len(BigDims) <= 1)) =>
        plan_result = NoSpace

\* The extent left per piece in each dimension: ceil(extent / pieces).
RemainingOf(sh, pieces) ==
    [d \in 1..Len(sh) |-> (sh[d] + pieces[d] - 1) \div pieces[d]]

\* The dimensions C30 lets a factor go to: one with the most left per piece;
\* the last one only if it keeps 32 per piece or no other dimension has as
\* much as the factor left; and, where the last one has the most left but
\* would not keep 32, the one with the most left among the others, if it has
\* at least the factor left.
MayTake(sh, pieces, factor) ==
    LET rem == RemainingOf(sh, pieces)
        last == Len(sh)
        others == 1..(last - 1)
        top(d) == \A o \in 1..last : rem[o] <= rem[d]
    IN  {d \in 1..last :
            IF d = last
            THEN /\ top(last)
                 /\ \/ rem[last] \div factor >= 32
                    \/ \A o \in others : rem[o] \div factor = 0
            ELSE \/ top(d)
                 \/ /\ top(last)
                    /\ rem[last] \div factor < 32
                    /\ rem[d] \div factor > 0
                    /\ \A o \in others : rem[o] <= rem[d]}

\* The launch spaces that applying the factors in order, each to a dimension
\* C30 allows, can end with.
RECURSIVE RuleSpaces(_, _, _)
RuleSpaces(sh, pieces, factors) ==
    IF factors = <<>> THEN {pieces}
    ELSE LET with(d) == [i \in 1..Len(sh) |->
                            IF i = d THEN pieces[i] * Head(factors) ELSE pieces[i]]
         IN  UNION {RuleSpaces(sh, with(d), Tail(factors)) :
                        d \in MayTake(sh, pieces, Head(factors))}

\* C30: for a shape with three or more extents greater than 1, every prime
\* factor of num_pieces goes to the dimension with the most extent left per
\* piece, and to the last dimension only if that keeps at least 32 per piece
\* there or no other dimension can take the factor.
C30_FactorsByRule ==
    (plan_result.status = "space" /\ Len(BigDims) >= 3) =>
        LET temp_shape == [i \in 1..Len(BigDims) |-> plan_shape[BigDims[i]]]
            temp_result == [i \in 1..Len(BigDims) |-> plan_result.space[BigDims[i]]]
        IN  temp_result \in RuleSpaces(temp_shape,
                                       [i \in 1..Len(BigDims) |-> 1],
                                       piece_factors)

\* 4 pieces on 2 by 2 by 100: the first 2 goes to the last dimension, which
\* keeps 50, the second to the first dimension, as the last would keep 25;
\* and 3 pieces on 2 by 2 by 40, where no other dimension can take the 3.
C30_Witness ==
    /\ plan_result.status = "space"
    /\ \/ num_pieces = 4 /\ plan_shape = <<2, 2, 100>>
             /\ plan_result.space = <<2, 1, 2>>
       \/ num_pieces = 3 /\ plan_shape = <<2, 2, 40>>
             /\ plan_result.space = <<1, 1, 3>>

\* ----------------------------------------------------- the match frequency

\* The ceiling of a / b.
CeilDiv(a, b) == CHOOSE q \in 0..a : q * b >= a /\ (q - 1) * b < a

\* C28: the match frequency of a FieldManager is the base frequency F when the
\* byte size s of its class is at most the maximum reuse size M, and
\* ceil(F / ceil(s / M)) otherwise; it lies between 1 and F, and of two
\* managers the one with the larger class has no larger frequency.
C28_MatchFrequency ==
    LET M == reuse.max_field_reuse_size
        F == reuse.max_field_reuse_frequency
    IN  /\ \A i \in 1..Len(managers) :
              LET m == managers[i]
              IN  /\ m.match_frequency =
                         IF m.size <= M THEN F
                         ELSE CeilDiv(F, CeilDiv(m.size, M))
                  /\ 1 <= m.match_frequency
                  /\ m.match_frequency <= F
        /\ \A i \in 1..Len(managers) : \A j \in 1..Len(managers) :
              managers[i].size <= managers[j].size =>
                  managers[j].match_frequency <= managers[i].match_frequency

\* Under M = 2 and F = 3 a class of 2 bytes keeps frequency 3 and a class of
\* 3 bytes has frequency 2 (ratio 2); under the runtime's own settings the
\* modelled class of 4096 bytes has frequency 2 and one of 8193 bytes has 1.
C28_Witness ==
    \/ /\ reuse = [max_field_reuse_size |-> 2, max_field_reuse_frequency |-> 3]
       /\ managers = <<[size |-> 2, match_frequency |-> 3],
                       [size |-> 3, match_frequency |-> 2]>>
    \/ /\ reuse.max_field_reuse_size = max_field_reuse_size
       /\ managers = <<[size |-> nbytes, match_frequency |-> 2],
                       [size |-> 8193, match_frequency |-> 1]>>

\* ------------------------------------------------ allocate_field, continued

\* A step in which p's allocate_field call starts.
AllocStep(p) ==
    /\ pc[p] = "idle"
    /\ pc'[p] = "drain" \/ Len(returned'[p]) = Len(returned[p]) + 1

\* A step in which p resolves a round.
ResolveStep(p) == Len(matches'[p]) < Len(matches[p])

\* C24: when the sanitized queue holds a pair after the dispatch step of
\* allocate, the call returns the head of the queue and removes that entry
\* only, resolves no round, allocates no slot id and creates no region; a
\* round is resolved only while the queue is empty and a round is outstanding.
C24_PopWithoutWaiting ==
    [][\A p \in procs :
        /\ (AllocStep(p) /\ Len(free_fields[p]) > 0) =>
              /\ pc'[p] = "idle"
              /\ returned'[p] = Append(returned[p], Head(free_fields[p]))
              /\ free_fields'[p] = Tail(free_fields[p])
              /\ SubSeq(matches'[p], 1, Len(matches[p])) = matches[p]
              /\ unagreed'[p] = unagreed[p]
              /\ field_space'[p] = field_space[p]
              /\ top_regions'[p] = top_regions[p]
        /\ ResolveStep(p) =>
              /\ Len(free_fields[p]) = 0
              /\ Len(matches[p]) > 0]_vars

\* A call dispatched a round and returned the head of the queue, leaving the
\* round outstanding.
C24_Witness ==
    \E p \in procs :
        /\ pc[p] = "idle"
        /\ Len(returned[p]) > 0
        /\ Len(matches[p]) > 0
        /\ Last(matches[p]) = Len(rounds[p])

\* C25: outstanding rounds are resolved in the order they were dispatched,
\* each at most once, and the drain inside allocate stops at the first round
\* after which the sanitized queue holds a pair: the call returns the head and
\* the later rounds stay outstanding until a later call finds the queue empty.
C25_DrainOldestFirst ==
    /\ [](\A p \in procs :
            /\ \A i \in 1..Len(matches[p]) :
                  /\ matches[p][i] \in 1..Len(rounds[p])
                  /\ \A j \in 1..(i - 1) : matches[p][j] < matches[p][i]
            /\ pc[p] = "drain" => Len(free_fields[p]) = 0)
    /\ [][\A p \in procs :
            /\ ResolveStep(p) =>
                  /\ Len(matches'[p]) = Len(matches[p]) - 1
                  /\ \A i \in 1..Len(matches'[p]) :
                        /\ matches'[p][i] = matches[p][i + 1]
                        /\ matches[p][1] < matches'[p][i]
            /\ (pc[p] = "check" /\ pc'[p] # "check") =>
                  IF Len(free_fields[p]) > 0
                  THEN /\ pc'[p] = "idle"
                       /\ returned'[p] = Append(returned[p], Head(free_fields[p]))
                       /\ matches'[p] = matches[p]
                  ELSE /\ pc'[p] = "drain"
                       /\ returned'[p] = returned[p]]_vars

\* The oldest of two outstanding rounds was resolved and filled the queue; a
\* later round is still outstanding.
C25_Witness ==
    \E p \in procs :
        /\ pc[p] = "check"
        /\ Len(free_fields[p]) > 0
        /\ Len(matches[p]) > 0

\* C27: allocate creates a top-level region only when the sanitized queue is
\* empty, no round is left to drain and no region of the manager has a field
\* space with room; when a region has room, allocate returns a slot id never
\* returned before in the first such region and creates no region.
C27_RegionOnlyWhenFull ==
    [][\A p \in procs :
        /\ top_regions'[p] # top_regions[p] =>
              /\ top_regions'[p] = top_regions[p] + 1
              /\ Len(free_fields[p]) = 0
              /\ Len(matches[p]) = 0
              /\ top_regions[p] = 0 \/ field_space[p] >= MaxFields
        /\ (/\ pc[p] = "drain"
            /\ pc'[p] = "idle"
            /\ top_regions[p] > 0
            /\ field_space[p] < MaxFields) =>
              /\ top_regions'[p] = top_regions[p]
              /\ returned'[p] = Append(returned[p], <<1, field_space[p] + 1>>)
              /\ Last(returned'[p]) \notin ToSet(returned[p]) \cup pooled[p]
              /\ field_space'[p] = field_space[p] + 1]_vars

\* A shard was given the second slot id of its first region and, once the
\* field space was full, a second region.
C27_Witness ==
    \E p \in procs :
        /\ Len(returned[p]) >= 3
        /\ returned[p][2] = <<1, 2>>
        /\ top_regions[p] = 2
        /\ \E k \in 1..Len(returned[p]) : returned[p][k][1] = 2

\* C26: FieldManager.free_field appends exactly one entry, the pair passed, to
\* the tail of the sanitized queue when ordered is true and to the tail of the
\* unsanitized list otherwise, and leaves the other list, the match counter,
\* the outstanding rounds and the top-level regions as they were: free
\* dispatches no round.
C26_FreeAppendsToOneList ==
    [][Call("free_field") =>
          LET pair == att_call'[1].pair
          IN  \A p \in procs :
                  /\ IF att_call'[1].ordered
                     THEN /\ free_fields'[p] = Append(free_fields[p], pair)
                          /\ freed_fields'[p] = freed_fields[p]
                     ELSE /\ freed_fields'[p] = Append(freed_fields[p], pair)
                          /\ free_fields'[p] = free_fields[p]
                  /\ match_counter'[p] = match_counter[p]
                  /\ matches'[p] = matches[p]
                  /\ rounds'[p] = rounds[p]
                  /\ top_regions'[p] = top_regions[p]
                  /\ field_space'[p] = field_space[p]
                  /\ pc'[p] = pc[p]]_vars

\* An ordered release went to the tail of a sanitized queue that held a pair,
\* while the unsanitized list held another.
C26_Witness ==
    /\ att_call # None
    /\ att_call[1].op = "free_field"
    /\ att_call[1].ordered
    /\ Len(free_fields[RT]) >= 2
    /\ Last(free_fields[RT]) = att_call[1].pair
    /\ Len(freed_fields[RT]) >= 1

\* ------------------------------------------------------------- teardown

\* A step in which the last holder of a field of p lets go of it, so that
\* Runtime.free_field is called.
FreeStep(p) == live'[p] # live[p] /\ live'[p] \subseteq live[p]

\* The pool of p's manager is as it was.
PoolUnchanged(p) ==
    /\ free_fields'[p] = free_fields[p]
    /\ freed_fields'[p] = freed_fields[p]
    /\ matches'[p] = matches[p]
    /\ rounds'[p] = rounds[p]
    /\ match_counter'[p] = match_counter[p]
    /\ top_regions'[p] = top_regions[p]
    /\ field_space'[p] = field_space[p]

\* C21 as amended: Runtime.free_field called once Runtime.destroy has set
\* field_managers to None, or after it has finished, any number of times,
\* changes no pool state; in the earlier part of teardown it still appends the
\* pair to the unsanitized list.
C21_FreeAfterDropIsNoOp ==
    [][\A p \in procs :
          (FreeStep(p) /\ destroy_pc \in {"dropped", "destroyed"}) =>
              PoolUnchanged(p)]_vars

\* Teardown has finished and two fields were released afterwards: their pairs
\* are in no list of the manager.
C21_Witness ==
    /\ destroy_pc = "destroyed"
    /\ \E j \in 1..Len(returned[RT]) : \E k \in 1..Len(returned[RT]) :
          /\ j # k
          /\ returned[RT][j] # returned[RT][k]
          /\ Places(RT, returned[RT][j]) = 0
          /\ Places(RT, returned[RT][k]) = 0

\* C21 as stated: Runtime.free_field called at any point during or after
\* runtime teardown changes no pool state.
C21_FreeDuringTeardownIsNoOp ==
    [][\A p \in procs :
          (FreeStep(p) /\ destroy_pc # "run") => PoolUnchanged(p)]_vars

\* C22: when Runtime.destroy has finished, every top-level region made by a
\* FieldManager has been destroyed.
C22_RegionsDestroyed ==
    destroy_pc = "destroyed" => \A p \in procs : top_regions[p] = 0

\* C23: before teardown, the pair of every registered attachment with a
\* nonzero count is in no list of the FieldManager, neither the sanitized
\* queue nor the unsanitized list nor the candidates of an outstanding round,
\* its Field is alive and its region is one of the manager's regions.
C23_AttachedPairNotFreed ==
    destroy_pc = "run" =>
        \A b \in Registered :
            attachments[b].count > 0 =>
                LET k == attachments[b].field
                    pair == returned[RT][k]
                IN  /\ k \in live[RT]
                    /\ Count(free_fields[RT], pair) = 0
                    /\ Count(freed_fields[RT], pair) = 0
                    /\ Count(Candidates(RT, matches[RT]), pair) = 0
                    /\ \A i \in 1..Len(rounds[RT]) :
                          i \in ToSet(matches[RT]) =>
                              Count(rounds[RT][i], pair) = 0
                    /\ pair[1] \in 1..top_regions[RT]

\* Before teardown every view of a registered attachment is gone, and the
\* field of a rejected attachment was released and offered in a round.
C23_Witness ==
    /\ destroy_pc = "run"
    /\ Registered # {}
    /\ att_views = {}
    /\ garbage = {}
    /\ Len(freed_fields[RT]) + Len(free_fields[RT])
           + Len(Candidates(RT, matches[RT])) > 0

\* A piece count that has a prime factor above 11.
LargePrimeFactor(n) ==
    \E q \in 12..n :
        /\ n % q = 0
        /\ \A e \in 2..(q - 1) : q % e # 0

\* C31: for a piece count with a prime factor greater than 11 the constructor
\* never yields a Runtime, and no launch space is returned or cached.
C31_LargePrimeRejected ==
    LargePrimeFactor(num_pieces) =>
        /\ runtime_pc # "ready"
        /\ plan_result = Unset
        /\ DOMAIN launch_spaces = {}

C31_Witness ==
    /\ LargePrimeFactor(num_pieces)
    /\ runtime_pc = "raised"
    /\ \E d \in 1..Len(plan_shape) : plan_shape[d] > 1

\* ------------------------------------------------- claims: derived views

\* A step that is the first find_or_create_key_partition call on the derived
\* view and after which its root has a key partition.
FirstKeyCall ==
    /\ derived # None
    /\ derived[1].calls = 0
    /\ derived'[1].calls = 1
    /\ derived'[1].root_key # None

\* The bounds of view d in the coordinates of its root.
RootBounds(d) ==
    LET lo == Zeros(Len(d.shape))
        hi == [n \in 1..Len(d.shape) |-> d.shape[n] - 1]
    IN  IF d.transform = None THEN [lo |-> lo, hi |-> hi]
        ELSE [lo |-> Apply(d.transform[1], lo), hi |-> Apply(d.transform[1], hi)]

\* The tiles of the root's key partition, among the children ch, that hold
\* the lower and the upper bound of view d.
RootTiles(d, ch) ==
    LET tile_shape == ch[d.root_key[1]].tile_shape
        b == RootBounds(d)
    IN  [lo |-> [m \in 1..Len(tile_shape) |-> b.lo[m] \div tile_shape[m]],
         hi |-> [m \in 1..Len(tile_shape) |-> b.hi[m] \div tile_shape[m]]]

\* How many tiles of the root the bounds of view d span.
TilesSpanned(d, ch) ==
    LET t == RootTiles(d, ch)
    IN  Product([m \in 1..Len(t.lo) |-> (t.hi[m] - t.lo[m]) + 1])

\* Some output axis of the transform has two nonzero coefficients or a
\* coefficient other than 1.
NotInvertible(d) ==
    /\ d.transform # None
    /\ \E m \in 1..Len(d.transform[1].trans) :
           LET row == d.transform[1].trans[m]
           IN  \/ \E n \in 1..Len(row) : row[n] \notin {0, 1}
               \/ \E n1, n2 \in 1..Len(row) :
                      n1 # n2 /\ row[n1] # 0 /\ row[n2] # 0

\* C32: a call on a derived view whose bounds lie in one tile of the root's
\* key partition returns no partition, adds no partition for the view to the
\* region, and records that tile's coordinate as the shard point, whatever
\* the transform.
C32_OneTileNoPartition ==
    [][(FirstKeyCall /\ TilesSpanned(derived'[1], children') = 1) =>
          /\ derived'[1].result = "none"
          /\ derived'[1].key_partition = None
          /\ Len(children') = 1
          /\ derived'[1].shard_point =
                 Some(RootTiles(derived'[1], children').lo)]_vars

\* What the planner gives for the shape of view d, asked afresh.
PlannedFor(d) ==
    LaunchSpaceByShape(d.shape, num_pieces, piece_factors,
                       [s \in {} |-> NoSpace]).result

\* C33: a call on a derived view that spans several root tiles through a
\* transform that is not invertible gives the view the partition of its own
\* shape: the planner's color shape, tiles by ceiling division, zero offset;
\* and where the planner gives no decomposition the call returns no
\* partition and does not fail.
C33_FallbackPartition ==
    [][(/\ FirstKeyCall
        /\ TilesSpanned(derived'[1], children') > 1
        /\ NotInvertible(derived'[1])) =>
          LET d == derived'[1]
              p == PlannedFor(d)
          IN  /\ p.status = "space" =>
                     /\ d.result = "partition"
                     /\ d.key_partition # None
                     /\ LET part == children'[d.key_partition[1]]
                        IN  /\ part.color_shape = p.space
                            /\ part.tile_shape =
                                   [n \in 1..Len(d.shape) |->
                                       (d.shape[n] + p.space[n] - 1)
                                           \div p.space[n]]
                            /\ part.tile_offset = Some(Zeros(Len(d.shape)))
              /\ p.status = "none" =>
                     /\ d.result = "none"
                     /\ d.key_partition = None]_vars

\* ------------------------------------------- claims: deferred detachments

\* The view whose __del__ runs in this step, outside a collection.
Dropped(v) ==
    /\ v \in att_views
    /\ att_views' = att_views \ {v}
    /\ garbage' = garbage

\* a is a prefix of b.
IsPrefix(a, b) == Len(a) <= Len(b) /\ SubSeq(b, 1, Len(a)) = a

\* C34: a detach with defer only appends the buffer and field to the deferred
\* list: the attachment table with its counts, the pending set and the ready
\* futures are unchanged, and a deferred entry leaves the list only in a drain
\* by perform_detachments.
C34_DeferOnlyAppends ==
    /\ [][\A v \in att_views :
             (Dropped(v) /\ v.array # None) =>
                 /\ deferred' = Append(deferred, [array |-> v.array[1],
                                                  field |-> v.field])
                 /\ attachments' = attachments
                 /\ pending' = pending
                 /\ completed' = completed]_vars
    /\ [][(destroy_pc # "deferred" /\ destroy_pc' # "done") =>
             IsPrefix(deferred, deferred')]_vars

C34_Witness ==
    /\ destroy_pc = "run"
    /\ pending = {}
    /\ \E i \in 1..Len(deferred) :
          /\ deferred[i].array \in Registered
          /\ attachments[deferred[i].array].field = deferred[i].field
          /\ attachments[deferred[i].array].count = 1

\* The futures of the dispatched detaches that are not ready.
NotReady == (pending \ completed) \cup Lost

\* C35: while the future of a dispatched detach is not ready, the pair of the
\* detached field is in neither list of the FieldManager and its Field is
\* alive, so that allocate_field cannot return it; and the future is in the
\* pending set.
C35_FieldKeptUntilReady ==
    \A f \in NotReady :
        LET pair == returned[RT][f.field]
        IN  /\ f \in pending
            /\ f.field \in live[RT]
            /\ Count(free_fields[RT], pair) = 0
            /\ Count(freed_fields[RT], pair) = 0

\* C35 for the futures that detach_array came to track.
C35_PendingFieldKept ==
    \A f \in pending :
        LET pair == returned[RT][f.field]
        IN  /\ f.field \in live[RT]
            /\ Count(free_fields[RT], pair) = 0
            /\ Count(freed_fields[RT], pair) = 0

\* C37: an attach_array call rejected for aliasing leaves the manager as it
\* was: the table, the registered and deferred detachments and the pending
\* set; no deferred detachment is for a buffer that is not registered, and
\* teardown never stops on the error of remove_attachment.
C37_RejectedLeavesNothing ==
    /\ [][(Call("attach_array") /\ att_call'[1].raised = "aliasing") =>
             /\ attachments' = attachments
             /\ deferred' = deferred
             /\ pending' = pending
             /\ RegisteredDetachments' = RegisteredDetachments]_vars
    /\ [](destroy_pc \in {"run", "deferred"} =>
             \A i \in 1..Len(deferred) : deferred[i].array \in Registered)
    /\ [](destroy_pc # "raised")

\* C36: prune_detachments removes from the pending set exactly the futures
\* that are ready when it is called and keeps every other one; the attachment
\* table and the deferred list are as before.
C36_PruneRemovesReady ==
    [][Call("prune_detachments") =>
          /\ pending' = {f \in pending : f \notin completed}
          /\ attachments' = attachments
          /\ deferred' = deferred]_vars

C36_Witness ==
    /\ att_call # None
    /\ att_call[1].op = "prune_detachments"
    /\ pending # {}
    /\ completed = {}
    /\ \E b \in Registered :
          /\ attachments[b].count > 1
          /\ \A f \in pending : f.array # b

\* ------------------------------------------------ claims: partition kinds

\* The kind a request asks for.
KindOf(complete) ==
    IF complete THEN "DISJOINT_COMPLETE" ELSE "DISJOINT_INCOMPLETE"

\* C38 as amended: every partition that a find_or_create call creates is of
\* the kind the call asked for, and a call answered by a congruent child
\* returns that child with the kind it was created with.
C38_CreatedKindAsRequested ==
    /\ \A i \in 1..Len(part_calls) :
           part_calls[i].created =>
               children[part_calls[i].result].kind
                   = KindOf(part_calls[i].complete)
    /\ \A i, j \in 1..Len(part_calls) :
           (i < j /\ part_calls[i].created
                  /\ part_calls[j].result = part_calls[i].result) =>
               children[part_calls[j].result].kind
                   = KindOf(part_calls[i].complete)

\* An incomplete partition was created, and a later request for a complete
\* one was answered with it.
C38_Witness ==
    \E i, j \in 1..Len(part_calls) :
        /\ i < j
        /\ part_calls[i].created
        /\ ~part_calls[i].complete
        /\ part_calls[j].complete
        /\ part_calls[j].result = part_calls[i].result
        /\ children[part_calls[j].result].kind = "DISJOINT_INCOMPLETE"

\* C38 as stated: every partition returned is of the kind the call asked
\* for.
C38_ReturnedKindAsRequested ==
    \A i \in 1..Len(part_calls) :
        children[part_calls[i].result].kind = KindOf(part_calls[i].complete)

\* Classes whose match frequencies are 2, 3, 1 and the runtime's largest, each
\* on one shard.
CountSizes == {nbytes, 11 * max_field_reuse_size, 2 * nbytes, max_field_reuse_size}

InitCount ==
    /\ FMInit({RT})
    /\ att_call = None
    /\ PlanInit({default_num_pieces}, {shape})
    /\ PartInit
    /\ ReuseInit({max_field_reuse_size}, {max_field_reuse_frequency},
                 {<<size>> : size \in CountSizes})

NextCount ==
    \/ AllocBegin(RT)
    \/ Resolve(RT)
    \/ Recheck(RT)
    \/ Fresh(RT)
    \/ \E k \in 1..MaxAllocsDrain : Free(RT, k)

SpecCount == InitCount /\ [][NextCount]_vars

\* C39: with a match frequency f >= 1, the match counter of a FieldManager is
\* in 0..f-1 and equals the number of allocate_field calls made so far modulo
\* f, and a step that starts no allocate_field call (a free, the resolution of
\* a round, the rest of a call) leaves the counter as it is.
C39_CounterIsCallsModFrequency ==
    /\ [](match_frequency >= 1 =>
            \A p \in procs :
                /\ match_counter[p] \in 0..(match_frequency - 1)
                /\ match_counter[p] = NumCalls(p) % match_frequency)
    /\ [][\A p \in procs :
             NumCalls(p)' = NumCalls(p) => match_counter'[p] = match_counter[p]]_vars

\* The counter of a manager of frequency 3 has wrapped and counted on, with a
\* round resolved and a field freed in between.
C39_Witness ==
    /\ match_frequency = 3
    /\ NumCalls(RT) = 4
    /\ match_counter[RT] = 1
    /\ Len(rounds[RT]) = 1
    /\ Len(matches[RT]) = 0
    /\ Len(freed_fields[RT]) > 0

\* ------------------------------------------------ a program that never ends
\* Two shards of one run that call allocate_field for ever. Only what the
\* calls to come depend on is kept: `returned` holds the pairs of the views
\* that are alive, `rounds` the candidate lists of the rounds some shard has
\* still to resolve, and `matches` numbers the rounds from the oldest of them.

LoopProcs == {"a"} \X Shards

\* The pairs of the regions the program makes.
LoopPairs == (1..MaxLoopRegions) \X (1..MaxFields)

\* Runtime.allocate_field called by a client that holds fewer than MaxHeld
\* views, while fewer than MaxRounds rounds are kept.
LoopCall(p) ==
    /\ Len(returned[p]) < MaxHeld
    /\ Len(rounds[p]) < MaxRounds
    /\ AllocCall(p, None)

\* Every shard has dispatched the oldest round that is kept and resolved it.
Settled(ms) ==
    \A q \in procs : Len(rounds[q]) > 0 /\ \A i \in 1..Len(ms[q]) : ms[q][i] # 1

\* The drain loop's body up to the re-check, as in Resolve; a round that every
\* shard has resolved is forgotten.
LoopResolve(p) ==
    /\ pc[p] = "drain"
    /\ Len(matches[p]) > 0
    /\ \E k \in {PopLeft(matches[p]).match} :
       \E fields \in {rounds[p][k]} :
       \E ms \in {[matches EXCEPT ![p] = PopLeft(@).rest]} :
           /\ Len(fields) > 0 => Ready(p, k)
           /\ \E output \in {IF Len(fields) > 0 THEN Output(p, k) ELSE <<>>} :
              \E upd \in {UpdateFreeFields(fields, output,
                                           free_fields[p], freed_fields[p])} :
                  /\ free_fields' = [free_fields EXCEPT ![p] = upd.free]
                  /\ freed_fields' = [freed_fields EXCEPT ![p] = upd.freed]
                  /\ unagreed' = [unagreed EXCEPT ![p] =
                                     @ \ (ToSet(fields) \cap ToSet(output))]
           /\ IF Settled(ms)
              THEN /\ rounds' = [q \in AllProcs |->
                                    IF q \in procs THEN Tail(rounds[q])
                                    ELSE rounds[q]]
                   /\ matches' = [q \in AllProcs |->
                                     [i \in 1..Len(ms[q]) |-> ms[q][i] - 1]]
              ELSE /\ rounds' = rounds
                   /\ matches' = ms
    /\ pc' = [pc EXCEPT ![p] = "check"]
    /\ UNCHANGED <<procs, match_counter, field_space, top_regions,
                   returned, live, freed_at, pooled>>
    /\ UNCHANGED <<rtvars, geovars>>

\* allocate_field with nothing to reuse, while the program has made fewer than
\* MaxLoopRegions regions or the first one has room.
LoopFresh(p) ==
    /\ \/ top_regions[p] > 0 /\ HasSpace(field_space[p])
       \/ top_regions[p] < MaxLoopRegions
    /\ Fresh(p)

\* s without its k-th element.
Without(s, k) == SubSeq(s, 1, k - 1) \o SubSeq(s, k + 1, Len(s))

\* The k-th view that is alive on p is collected: Field.__del__ calls
\* Runtime.free_field, which frees its pair with ordered left at its default.
LoopFree(p, k) ==
    /\ k \in live[p]
    /\ LET pair == returned[p][k]
           upd  == RuntimeFreeField(free_fields[p], freed_fields[p], pair)
       IN  /\ free_fields' = [free_fields EXCEPT ![p] = upd.free]
           /\ freed_fields' = [freed_fields EXCEPT ![p] = upd.freed]
           /\ unagreed' = [unagreed EXCEPT ![p] = @ \cup {pair}]
    /\ returned' = [returned EXCEPT ![p] = Without(@, k)]
    /\ live' = [live EXCEPT ![p] = 1..(Len(returned[p]) - 1)]
    /\ UNCHANGED <<procs, pc, match_counter, matches, rounds, field_space,
                   top_regions, freed_at, pooled>>
    /\ UNCHANGED <<rtvars, geovars>>

InitLoop ==
    /\ FMInit(LoopProcs)
    /\ att_call = None
    /\ PlanInit({default_num_pieces}, {shape})
    /\ PartInit
    /\ ReuseInit({max_field_reuse_size}, {max_field_reuse_frequency},
                 {<<2 * nbytes>>})

NextLoop ==
    \/ \E p \in procs : LoopCall(p)
    \/ \E p \in procs : LoopResolve(p)
    \/ \E p \in procs : Recheck(p)
    \/ \E p \in procs : LoopFresh(p)
    \/ \E p \in procs : \E k \in 1..MaxHeld : LoopFree(p, k)

\* A call that was started goes on: the shard's thread runs, and the future
\* of a round is ready once every shard has dispatched the round.
SpecLoop ==
    /\ InitLoop
    /\ [][NextLoop]_vars
    /\ \A p \in LoopProcs :
           /\ WF_vars(LoopResolve(p))
           /\ WF_vars(Recheck(p))
           /\ WF_vars(LoopFresh(p))

\* The shard keeps calling allocate_field, and its calls return.
KeepsCalling(p) == []<>(pc[p] = "idle") /\ []<>(pc[p] # "idle")

\* The pair is in the unsanitized list of every shard: each shard freed it
\* with ordered = false, and none has it in a round or in free_fields.
FreedOnEveryShard(x) == \A q \in LoopProcs : x \in ToSet(freed_fields[q])

\* The pairs of the first region the program makes.
FirstPairs == {1} \X (1..MaxFields)

\* C40: if every shard keeps calling allocate_field, a pair that was freed
\* with ordered = false on every shard is eventually in free_fields on every
\* shard; stated here for the pairs of the first region and for the first
\* shard, which is the least the claim asks for.
C40_FreedEverywhereIsSanitized ==
    (\A p \in LoopProcs : KeepsCalling(p)) =>
        \A x \in FirstPairs :
            FreedOnEveryShard(x) ~> (x \in ToSet(free_fields[RT]))

====
